---------------------------- MODULE Spec2Model ----------------------------
(***************************************************************************)
(* SigDigger panoramic spectrum dialog: the frequency range model (range   *)
(* spin boxes, device bounds, LNB offset, full-range mode), the zoom / pan *)
(* reconciliation, the scan button and the running state, the frames, the  *)
(* export of the saved spectrum and the load of the configuration of       *)
(* PanoramicDialog.cpp, and the staleness filter of UIMediator::feedPSD.   *)
(*                                                                         *)
(* Frequencies are integers (Hz).  The dialog object and the widgets it    *)
(* owns are one record, d; every slot is an operator from dialog state to  *)
(* dialog state, so that a slot run by a signal emitted inside another     *)
(* slot (valueChanged of a spin box, newZoomLevel of the waterfall) is     *)
(* part of the enclosing handler, as in Qt's direct connections.           *)
(***************************************************************************)
EXTENDS Integers, Sequences, FiniteSets, TLC

VARIABLES d, ev, um, fs, cfg, sw

vars == <<d, ev, um, fs, cfg, sw>>

(***************************************************************************)
(* Bounds of the model.                                                    *)
(***************************************************************************)
\* Range values a user types into the range spin boxes: 0..MaxFreq.
MaxFreq == 6
\* Spans a zoom gesture leaves in the waterfall: 0..MaxSpan.
MaxSpan == 5

\* Devices known to the library: name -> frequency limits.  Device 1 is a
\* wideband device whose range exceeds what a float represents exactly.
Devices ==
  << [minFreq |-> 0, maxFreq |-> 20000001],
     [minFreq |-> 1, maxFreq |-> 6],
     [minFreq |-> 2, maxFreq |-> 4] >>

DeviceNames == 1..Len(Devices)
NoDevice == 0

LnbVals == {-1, 0, 2}

\* Pandapter ranges, in tenths of a dB: the float arguments of
\* rangeChanged, with fractional parts on either side of zero.
PandRanges == {[min |-> -1205, max |-> -95], [min |-> -600, max |-> 5]}

\* The rangeChanged signals that the spectrum emits while its range is
\* being set to r: none, or one with another range.
RangeEchoes(r) == {<< >>} \cup {<<e>> : e \in PandRanges \ {r}}

\* The permissions of an analyzer source.
Perms ==
  {"dcRemove", "iqReverse", "agc", "bw", "ppm", "throttle", "antenna", "gain"}

\* Suscan::AnalyzerSourceInfo(): what a source info holds before an
\* analyzer has reported one.  Every permission is taken to be granted.
DefaultInfo == [permissions |-> Perms, sampleRate |-> 0]

\* Source infos reported by an analyzer: permissions and sample rate.
SourceInfos ==
  << [permissions |-> Perms, sampleRate |-> 1],
     [permissions |-> Perms, sampleRate |-> 2],
     [permissions |-> {"dcRemove", "bw", "ppm", "gain"}, sampleRate |-> 1],
     [permissions |-> {"dcRemove", "bw", "ppm", "gain"}, sampleRate |-> 2],
     [permissions |-> {}, sampleRate |-> 1],
     [permissions |-> {}, sampleRate |-> 2] >>

\* Profiles: the type of the source and whether it is a remote one.
SourceProfiles ==
  << [type |-> "SDR", remote |-> FALSE],
     [type |-> "SDR", remote |-> TRUE],
     [type |-> "FILE", remote |-> FALSE],
     [type |-> "FILE", remote |-> TRUE] >>

\* profile == nullptr.
NoProfile == [type |-> "none", remote |-> FALSE]
RangeInputs == (0..MaxFreq) \cup {20000000}
\* Centres of the view a zoom gesture leaves in the waterfall.
ZoomCenters == (0..MaxFreq) \cup {10000000}
SpanInputs == (0..MaxSpan) \cup {20000004}
PanInputs == (-1..(MaxFreq + 1)) \cup {10000000}
MinBwInputs == {4, 20000000}
\* Frames the scanner delivers: [freqStart, freqEnd].
FrameStarts == {0, 2}
FrameEnds == {4, 6}
\* The samples of the frames with given limits, in millionths of a dB: the
\* widest frame comes with either of two sample vectors.
FrameData(freqStart, freqEnd) ==
  IF freqEnd - freqStart > 4
    THEN {<<-90123456, -85500000>>, <<-85500000>>}
    ELSE IF freqStart > 0 THEN {<<-85500000>>}
    ELSE {<<-90123456, -85500000>>}
\* Values a user types into the sample rate spin box.
SampRateInputs == {1, 4}
\* Paths a user picks in the export dialog, and those among them that
\* cannot be opened for writing.
Paths == 1..3
ReadOnlyPaths == {3}
\* Values of the fields of a configuration object.
ConfValues == {1, 2}
\* Frames counted by the dialog.
MaxFrames == 2
\* Frames of one acquisition session that the mediator is followed through.
MaxSession == 4
\* PSD messages: the delay now - getRealTimeStamp() in microseconds, the
\* declared sample rate and the measured one.
PsdDelays == {80000, 90000, 100000, 150000, 150001}
PsdRates == {[rate |-> 1, measured |-> 11], [rate |-> 2, measured |-> 12]}
\* guiConfig.msgTTL, in milliseconds.
MsgTTL == 50
RelBwVals == {50, 100}

(***************************************************************************)
(* C++ arithmetic.                                                         *)
(***************************************************************************)
\* qint64 division by two, and the cast of .5 * x to qint64: both truncate
\* toward zero.
TruncDiv2(x) == IF x >= 0 THEN x \div 2 ELSE -((-x) \div 2)

\* qint64 division by ten.
TruncDiv10(x) == IF x >= 0 THEN x \div 10 ELSE -((-x) \div 10)

Abs(x) == IF x < 0 THEN -x ELSE x

\* Significand of an IEEE-754 single: integers up to 2^24 are exact.
FloatMantissa == 16777216

RECURSIVE FloatUnit(_, _)
FloatUnit(n, u) == IF n \div u < FloatMantissa THEN u ELSE FloatUnit(n, 2 * u)

\* Conversion of a non-negative integer to float (round to nearest, ties to
\* even), as an integer.
ToFloat(n) ==
  LET u == FloatUnit(n, 1)
      q == n \div u
      r == n % u
  IN  IF 2 * r < u \/ (2 * r = u /\ q % 2 = 0) THEN q * u ELSE (q + 1) * u

\* std::numeric_limits<float>::digits10.
FloatDigits10 == 6

RECURSIVE Pow10(_)
Pow10(k) == IF k = 0 THEN 1 ELSE 10 * Pow10(k - 1)

\* The number of decimal digits of n > 0.
RECURSIVE DecimalDigits(_)
DecimalDigits(n) == IF n < 10 THEN 1 ELSE 1 + DecimalDigits(n \div 10)

\* m * 10^e without the trailing zeros of m.
RECURSIVE StripZeros(_, _)
StripZeros(m, e) ==
  IF m # 0 /\ m % 10 = 0 THEN StripZeros(m \div 10, e + 1)
  ELSE [mant |-> m, exp |-> e]

\* n rounded to p significant digits (ties to even), as m * 10^e.
RoundDigits(n, p) ==
  LET k == DecimalDigits(n)
      u == Pow10(k - p)
      q == n \div u
      r == n % u
      m == IF 2 * r < u \/ (2 * r = u /\ q % 2 = 0) THEN q ELSE q + 1
  IN  IF k <= p THEN [mant |-> n, exp |-> 0] ELSE [mant |-> m, exp |-> k - p]

\* operator<< of a float under setprecision(p), the float given in
\* millionths: the digits printed (no trailing zeros) as mant * 10^exp, the
\* sign, and whether the notation is the scientific one.
StreamFloat(x, p) ==
  LET r == RoundDigits(Abs(x), p)
      s == StripZeros(r.mant, r.exp - 6)
      X == DecimalDigits(s.mant) + s.exp - 1
  IN  IF x = 0
        THEN [neg |-> FALSE, mant |-> 0, exp |-> 0, sci |-> FALSE]
        ELSE [neg |-> x < 0, mant |-> s.mant, exp |-> s.exp,
              sci |-> X < -4 \/ X >= p]

(***************************************************************************)
(* Widgets.                                                                *)
(***************************************************************************)
Clamp(v, lo, hi) == IF v < lo THEN lo ELSE IF v > hi THEN hi ELSE v

\* setValue without the clamp to [min, max].
SpinSetValueNoClamp(sp, v) == [sp EXCEPT !.val = v]

\* A spin box [val, min, max]: setValue, setMinimum and setMaximum keep
\* min <= val <= max.
SpinSetValue(sp, v) == [sp EXCEPT !.val = Clamp(v, sp.min, sp.max)]

SpinSetMinimum(sp, m) ==
  LET mx == IF sp.max < m THEN m ELSE sp.max
  IN  [val |-> Clamp(sp.val, m, mx), min |-> m, max |-> mx]

SpinSetMaximum(sp, m) ==
  LET mn == IF sp.min > m THEN m ELSE sp.min
  IN  [val |-> Clamp(sp.val, mn, m), min |-> mn, max |-> m]

\* One call on the waterfall, or one signal emitted by the dialog, kept in
\* the log of the handler being run.
Entry(sig, a, b, f) == [sig |-> sig, a |-> a, b |-> b, f |-> f]

Log(s, sig, a, b, f) == [s EXCEPT !.log = Append(@, Entry(sig, a, b, f))]

(***************************************************************************)
(* PanoramicDialog: accessors.                                             *)
(***************************************************************************)
getLnbOffset(s) == s.lnb

getMinFreq(s) == s.rangeStartSpin.val

getMaxFreq(s) == s.rangeEndSpin.val

getSelectedDevice(s) == s.device \in s.deviceMap

getFrequencyUnits(freq) ==
  LET f == Abs(freq)
  IN  IF f < 1000 THEN 1
      ELSE IF f < 1000000 THEN 1000
      ELSE IF f < 1000000000 THEN 1000000
      ELSE 1000000000

refreshUi(s) ==
  LET empty == s.deviceMap = {}
  IN  [s EXCEPT
        !.deviceEnabled = ~s.running /\ ~empty,
        !.fullRangeEnabled = ~s.running /\ ~empty,
        !.rangeEnabled = ~s.running /\ ~empty /\ ~s.fullRange,
        !.lnbEnabled = ~s.running,
        !.scanChecked = s.running,
        !.sampleRateEnabled = ~s.running]

(***************************************************************************)
(* PanoramicDialog: the range model.                                       *)
(***************************************************************************)
RECURSIVE adjustRanges(_)

onFreqRangeChanged(s) == adjustRanges(s)

\* A change of a range spin box: valueChanged runs onFreqRangeChanged when
\* the value differs from the one held.
rangeStartUpdate(s, sp) ==
  IF sp.val = s.rangeStartSpin.val
    THEN [s EXCEPT !.rangeStartSpin = sp]
    ELSE onFreqRangeChanged([s EXCEPT !.rangeStartSpin = sp])

rangeEndUpdate(s, sp) ==
  IF sp.val = s.rangeEndSpin.val
    THEN [s EXCEPT !.rangeEndSpin = sp]
    ELSE onFreqRangeChanged([s EXCEPT !.rangeEndSpin = sp])

rangeStartSetValue(s, v) == rangeStartUpdate(s, SpinSetValue(s.rangeStartSpin, v))

rangeEndSetValue(s, v) == rangeEndUpdate(s, SpinSetValue(s.rangeEndSpin, v))

rangeStartSetMinimum(s, m) ==
  rangeStartUpdate(s, SpinSetMinimum(s.rangeStartSpin, m))

rangeStartSetMaximum(s, m) ==
  rangeStartUpdate(s, SpinSetMaximum(s.rangeStartSpin, m))

rangeEndSetMinimum(s, m) == rangeEndUpdate(s, SpinSetMinimum(s.rangeEndSpin, m))

rangeEndSetMaximum(s, m) == rangeEndUpdate(s, SpinSetMaximum(s.rangeEndSpin, m))

\* Both spin boxes are given the limits [lo, hi], the start one first.
rangeSetLimits(s, lo, hi) ==
  rangeEndSetMaximum(
    rangeEndSetMinimum(
      rangeStartSetMaximum(rangeStartSetMinimum(s, lo), hi), lo), hi)

\* The tail of adjustRanges: the waterfall is given the units, the span and
\* the centre computed from the values read on entry.
adjustWaterfall(s, minFreq, maxFreq) ==
  [s EXCEPT
    !.log = @ \o << Entry("setFreqUnits", getFrequencyUnits(maxFreq), 0, FALSE),
                    Entry("setSpanFreq", maxFreq - minFreq, 0, FALSE),
                    Entry("setCenterFreq", TruncDiv2(maxFreq + minFreq), 0, FALSE) >>,
    !.wfCenter = TruncDiv2(maxFreq + minFreq)]

\* adjustRanges without the exchange of a start above the end.
adjustRangesNoSwap(s) ==
  adjustWaterfall(s, s.rangeStartSpin.val, s.rangeEndSpin.val)

adjustRanges(s) ==
  adjustWaterfall(
    IF s.rangeStartSpin.val > s.rangeEndSpin.val
      THEN rangeEndSetValue(
             rangeStartSetValue(s, s.rangeEndSpin.val), s.rangeStartSpin.val)
      ELSE s,
    s.rangeStartSpin.val,
    s.rangeEndSpin.val)

invalidRange(s) == Abs(s.rangeEndSpin.val - s.rangeStartSpin.val) < 1

\* Both range values are set, the start one first.
rangeSetValues(s, lo, hi) == rangeEndSetValue(rangeStartSetValue(s, lo), hi)

\* setRanges without the reset of an invalid or full range.
setRangesResetNever(s, minFreq, maxFreq) == s

setRangesReset(s, minFreq, maxFreq) ==
  IF invalidRange(s) \/ s.fullRange THEN rangeSetValues(s, minFreq, maxFreq) ELSE s

setRanges(s, dev) ==
  adjustRanges(
    setRangesReset(
      rangeSetLimits(
        s,
        Devices[dev].minFreq + getLnbOffset(s),
        Devices[dev].maxFreq + getLnbOffset(s)),
      Devices[dev].minFreq + getLnbOffset(s),
      Devices[dev].maxFreq + getLnbOffset(s)))

deviceFullRange(s, dev) ==
  IF s.fullRange
    THEN rangeSetValues(
           s,
           Devices[dev].minFreq + getLnbOffset(s),
           Devices[dev].maxFreq + getLnbOffset(s))
    ELSE s

onDeviceChanged(s) ==
  adjustRanges(
    IF getSelectedDevice(s)
      THEN deviceFullRange(setRanges(s, s.device), s.device)
      ELSE s)

\* onFullRangeChanged that only refreshes the widgets.
onFullRangeChangedNoReset(s) == refreshUi(s)

onFullRangeChanged(s) ==
  refreshUi(
    IF getSelectedDevice(s) /\ s.fullRange
      THEN rangeSetValues(
             s,
             Devices[s.device].minFreq + getLnbOffset(s),
             Devices[s.device].maxFreq + getLnbOffset(s))
      ELSE s)

onLnbOffsetChanged(s) ==
  IF getSelectedDevice(s) THEN setRanges(s, s.device) ELSE s

FirstOf(S) == CHOOSE n \in S : \A m \in S : n <= m

populateDeviceCombo(s, available) ==
  refreshUi(
    IF available # {}
      THEN onDeviceChanged(
             [s EXCEPT !.deviceMap = available, !.device = FirstOf(available)])
      ELSE [s EXCEPT !.deviceMap = available, !.device = NoDevice])

(***************************************************************************)
(* PanoramicDialog: zoom and pan.                                          *)
(***************************************************************************)
\* getRelBw is slider / 100.f; the slider positions of the model are
\* multiples of 25, whose quotient is exact in a float, and the relative
\* bandwidth is kept in quarters.
getRelBw(s) == s.relBwSlider \div 25

\* max - min <= minBwForZoom * getRelBw(): the product of a quint64 and a
\* float is a float, and so is the width it is compared with.  Both sides
\* are in quarters of a Hz.
FixedMode(w, minBw, relBw) ==
  4 * (IF w < 0 THEN -ToFloat(-w) ELSE ToFloat(w)) <= ToFloat(ToFloat(minBw) * relBw)

\* Reconcile without the move: both edges are clamped where they are.
ReconcileClampOnly(min, max, lo, hi) ==
  [min |-> IF min < lo THEN lo ELSE min,
   max |-> IF max > hi THEN hi ELSE max,
   adjLeft |-> min < lo,
   adjRight |-> max > hi]

\* The window [min, max] asked for, against the range [lo, hi]: a window
\* over one edge only is moved back by what is over, then both edges are
\* clamped.
Reconcile(min, max, lo, hi) ==
  LET left == min < lo /\ max <= hi
      right == ~left /\ min >= lo /\ max > hi
      extra == IF left THEN lo - min ELSE IF right THEN -(max - hi) ELSE 0
  IN  [min |-> IF min + extra < lo THEN lo ELSE min + extra,
       max |-> IF max + extra > hi THEN hi ELSE max + extra,
       adjLeft |-> left \/ right \/ min + extra < lo,
       adjRight |-> left \/ right \/ max + extra > hi]

RECURSIVE onNewZoomLevel(_, _, _)

\* Waterfall::resetHorizontalZoom shows the whole sample rate again and emits
\* newZoomLevel, which runs the slot.
wfResetHorizontalZoom(s) ==
  onNewZoomLevel(Log(s, "resetHorizontalZoom", 0, 0, FALSE), 0, s.wfSampleRate)

wfSetSampleRate(s, bw) ==
  [Log(s, "setSampleRate", bw, 0, FALSE) EXCEPT !.wfSampleRate = bw]

wfSetCenterFreq(s, fc) ==
  [Log(s, "setCenterFreq", fc, 0, FALSE) EXCEPT !.wfCenter = fc]

wfSetLocked(s) == Log(s, "setLocked", 0, 0, FALSE)

\* The demodulator ranges of a waterfall of width bw.  demodBw is limited
\* to 4000000000, which no bw / 10 of the model reaches.
wfSetDemod(s, bw) ==
  Log(Log(s, "setDemodRanges", TruncDiv2(-bw), TruncDiv2(bw), TRUE),
      "setHiLowCutFrequencies",
      TruncDiv2(-TruncDiv10(bw)), TruncDiv2(TruncDiv10(bw)), FALSE)

\* setWfRangeFixed that sets the sample rate whatever the current one.
setWfRangeFixedAlways(s) ==
  [wfSetSampleRate(s, s.minBwForZoom) EXCEPT !.currBw = s.minBwForZoom]

\* setWfRange in FixedFrequency mode: the centre is left alone.
setWfRangeFixed(s) ==
  IF s.minBwForZoom # s.currBw
    THEN [wfSetSampleRate(s, s.minBwForZoom) EXCEPT
            !.currBw = s.minBwForZoom]
    ELSE s

\* setWfRangeSweep that reconfigures the waterfall whatever its width.
setWfRangeSweepAlways(s, freqStart, freqEnd) ==
  [wfResetHorizontalZoom(
     wfSetDemod(
       wfSetSampleRate(
         wfSetLocked(wfSetCenterFreq(s, TruncDiv2(freqEnd + freqStart))),
         freqEnd - freqStart),
       freqEnd - freqStart)) EXCEPT
     !.currBw = freqEnd - freqStart]

\* setWfRange in sweep mode.
setWfRangeSweep(s, freqStart, freqEnd) ==
  IF freqEnd - freqStart # s.currBw
    THEN [wfResetHorizontalZoom(
            wfSetDemod(
              wfSetSampleRate(
                wfSetLocked(
                  wfSetCenterFreq(s, TruncDiv2(freqEnd + freqStart))),
                freqEnd - freqStart),
              freqEnd - freqStart)) EXCEPT
            !.currBw = freqEnd - freqStart]
    ELSE wfSetCenterFreq(s, TruncDiv2(freqEnd + freqStart))

setWfRange(s, freqStart, freqEnd) ==
  IF s.fixedFreqMode
    THEN setWfRangeFixed(s)
    ELSE setWfRangeSweep(s, freqStart, freqEnd)

\* The window of the display on entry, reconciled with the range.
zoomRequest(s, fft, span) ==
  Reconcile(
    s.wfCenter + fft - TruncDiv2(span),
    s.wfCenter + fft + TruncDiv2(span),
    getMinFreq(s),
    getMaxFreq(s))

\* zoomReset that never resets the zoom.
zoomResetNever(s, r) == s

zoomReset(s, r) ==
  IF r.adjLeft /\ r.adjRight THEN wfResetHorizontalZoom(s) ELSE s

\* fixedWindow of width minBwForZoom instead of the span shown.
fixedWindowMinBw(s, span) ==
  [min |-> s.wfCenter - TruncDiv2(s.minBwForZoom),
   max |-> s.wfCenter + TruncDiv2(s.minBwForZoom)]

\* The window of FixedFrequency mode: the span shown, around the centre the
\* waterfall is tuned to.
fixedWindow(s, span) ==
  [min |-> s.wfCenter - TruncDiv2(span), max |-> s.wfCenter + TruncDiv2(span)]

\* fft and span are what the waterfall holds when the slot runs:
\* getFftCenterFreq() and getSpanFreq().
onNewZoomLevel(s, fft, span) ==
  IF s.adjustingRange
    THEN s
    ELSE LET r == zoomRequest(s, fft, span)
             fixed == FixedMode(r.max - r.min, s.minBwForZoom, getRelBw(s))
             min == IF fixed THEN fixedWindow(s, span).min ELSE r.min
             max == IF fixed THEN fixedWindow(s, span).max ELSE r.max
         IN  Log(
               [setWfRange(
                  [zoomReset([s EXCEPT !.adjustingRange = TRUE], r) EXCEPT
                     !.fixedFreqMode = fixed],
                  min,
                  max) EXCEPT
                  !.adjustingRange = FALSE],
               "detailChanged", min, max, fixed)

\* PanWindow that clamps each edge where it is instead of sliding the window.
PanWindowClamp(freq, span, lo, hi) ==
  [min |-> Clamp(freq - TruncDiv2(span), lo, hi),
   max |-> Clamp(freq + TruncDiv2(span), lo, hi),
   border |-> freq - TruncDiv2(span) <= lo \/ freq + TruncDiv2(span) >= hi]

\* The window of width span around freq, against the range [lo, hi].
PanWindow(freq, span, lo, hi) ==
  LET leftBorder == freq - TruncDiv2(span) <= lo
      rightBorder == freq + TruncDiv2(span) >= hi
      min == IF leftBorder THEN lo ELSE freq - TruncDiv2(span)
      max == IF rightBorder THEN hi ELSE freq + TruncDiv2(span)
  IN  [min |-> IF rightBorder /\ ~leftBorder THEN max - span ELSE min,
       max |-> IF leftBorder /\ ~rightBorder THEN min + span ELSE max,
       border |-> leftBorder \/ rightBorder]

onNewCenterFreq(s, freq) ==
  LET w == PanWindow(freq, s.currBw, getMinFreq(s), getMaxFreq(s))
  IN  Log(
        IF w.border THEN wfSetCenterFreq(s, TruncDiv2(w.max + w.min)) ELSE s,
        "detailChanged", w.min, w.max, s.fixedFreqMode)

\* feedRange that reconfigures the waterfall on every frame.
feedRangeAlways(s, freqStart, freqEnd) ==
  [setWfRange(
     Log([s EXCEPT !.freqStart = freqStart,
                   !.freqEnd = freqEnd,
                   !.adjustingRange = TRUE],
         "setWfRange", freqStart, freqEnd, FALSE),
     freqStart,
     freqEnd) EXCEPT
     !.adjustingRange = FALSE]

\* feedRange that does not hold the guard.
feedRangeUnguarded(s, freqStart, freqEnd) ==
  IF s.freqStart # freqStart \/ s.freqEnd # freqEnd
    THEN setWfRange(
           Log([s EXCEPT !.freqStart = freqStart, !.freqEnd = freqEnd],
               "setWfRange", freqStart, freqEnd, FALSE),
           freqStart,
           freqEnd)
    ELSE s

\* The head of feed: a frame whose limits differ from the last frame's
\* reconfigures the waterfall, with the guard held.
feedRange(s, freqStart, freqEnd) ==
  IF s.freqStart # freqStart \/ s.freqEnd # freqEnd
    THEN [setWfRange(
            Log([s EXCEPT !.freqStart = freqStart,
                          !.freqEnd = freqEnd,
                          !.adjustingRange = TRUE],
                "setWfRange", freqStart, freqEnd, FALSE),
            freqStart,
            freqEnd) EXCEPT
            !.adjustingRange = FALSE]
    ELSE s

\* SavedSpectrum::set.
SavedSpectrumSet(start, end, data) ==
  [start |-> start, end |-> end, data |-> data]

\* One line of a text file: a text, the numbers printed after it, each
\* followed by a space when there are several, and the text that ends it.
Line(text, vals, tail) == [text |-> text, vals |-> vals, tail |-> tail]

\* exportFloat that prints one digit less.
exportFloatShort(x) == StreamFloat(x, FloatDigits10 - 1)

\* A sample as exportToFile prints it.
exportFloat(x) == StreamFloat(x, FloatDigits10)

\* The text exportToFile writes.
exportText(saved) ==
  << Line("%", << >>, ""),
     Line("% Panoramic Spectrum file generated by SigDigger", << >>, ""),
     Line("%", << >>, ""),
     Line("", << >>, ""),
     Line("freqMin = ", <<saved.start>>, ";"),
     Line("freqMax = ", <<saved.end>>, ";"),
     Line("PSD = [ ", [i \in DOMAIN saved.data |-> exportFloat(saved.data[i])],
          "];") >>

\* std::ofstream::is_open after the file is opened for writing.
exportIsOpen(path) == path \notin ReadOnlyPaths

\* SavedSpectrum::exportToFile: what it returns and the files it leaves.
exportToFile(saved, files, path) ==
  IF ~exportIsOpen(path)
    THEN [ok |-> FALSE, files |-> files]
    ELSE [ok |-> TRUE, files |-> [files EXCEPT ![path] = exportText(saved)]]

\* onExport: the file dialog opens.
onExportOpen(s) == [s EXCEPT !.exporting = TRUE]

\* onExportAccepted that gives up after a failed export.
onExportAcceptedOnce(s, ok, path) ==
  IF ~ok
    THEN [Log(s, "warning", path, 0, FALSE) EXCEPT !.exporting = FALSE]
    ELSE [s EXCEPT !.exporting = FALSE]

\* onExport: the file dialog was accepted with a path and exportToFile has
\* returned ok.  A failure is reported and the dialog opens again.
onExportAccepted(s, ok, path) ==
  IF ~ok
    THEN Log(s, "warning", path, 0, FALSE)
    ELSE [s EXCEPT !.exporting = FALSE]

\* onExport: the file dialog was rejected.
onExportRejected(s) == [s EXCEPT !.exporting = FALSE]

\* The tail of feed: the frame is saved and handed to the waterfall.
feedData(s, freqStart, freqEnd, data) ==
  [Log(Log(s, "savedSet", freqStart, freqEnd, FALSE),
       "setNewFftData", 0, 0, FALSE) EXCEPT
     !.saved = SavedSpectrumSet(freqStart, freqEnd, data),
     !.exportEnabled = TRUE,
     !.frames = @ + 1]

feed(s, freqStart, freqEnd, data) ==
  feedData(feedRange(s, freqStart, freqEnd), freqStart, freqEnd, data)

\* onSampleRateSpinChanged that stores the rate of a running dialog too.
onSampleRateSpinChangedAlways(s) == [s EXCEPT !.sampRate = s.sampleRateSpin]

onSampleRateSpinChanged(s) ==
  IF ~s.running THEN [s EXCEPT !.sampRate = s.sampleRateSpin] ELSE s

\* sampleRateSpin->setValue: valueChanged runs onSampleRateSpinChanged.
sampleRateSpinSetValue(s, v) ==
  IF v = s.sampleRateSpin
    THEN s
    ELSE onSampleRateSpinChanged([s EXCEPT !.sampleRateSpin = v])

\* setRunningEnter that keeps the frame counter of the last scan.
setRunningEnterKeep(s, running) ==
  IF ~running /\ s.running
    THEN sampleRateSpinSetValue(s, s.sampRate)
    ELSE s

\* The transitions of setRunning: the frame counter starts at 0 with a
\* scan, the sample rate control shows the stored rate again after it.
setRunningEnter(s, running) ==
  IF running /\ ~s.running
    THEN Log([s EXCEPT !.frames = 0], "framesLabel", 0, 0, FALSE)
    ELSE IF ~running /\ s.running
      THEN sampleRateSpinSetValue(s, s.sampRate)
      ELSE s

setRunning(s, running) ==
  refreshUi([setRunningEnter(s, running) EXCEPT !.running = running])

setBannedDevice(s, desc) == [s EXCEPT !.bannedDevice = desc]

\* The description of the device that onToggleScan looks at: that of the
\* selected device, or that of no device.
selectedDesc(s) == IF getSelectedDevice(s) THEN s.device ELSE NoDevice

\* onToggleScanButton that starts the scan on any device.
onToggleScanButtonAny(s) ==
  IF s.scanChecked
    THEN Log(s, "start", 0, 0, FALSE)
    ELSE Log(s, "stop", 0, 0, FALSE)

\* The head of onToggleScan: start is emitted unless the selected device is
\* the banned one; stop is emitted when the button is released.
onToggleScanButton(s) ==
  IF s.scanChecked
    THEN IF s.bannedDevice # NoDevice /\ selectedDesc(s) = s.bannedDevice
      THEN [Log(s, "critical", 0, 0, FALSE) EXCEPT !.scanChecked = FALSE]
      ELSE Log(s, "start", 0, 0, FALSE)
    ELSE Log(s, "stop", 0, 0, FALSE)

\* The tail of onToggleScan: the waterfall and the text of the button follow
\* the button.
onToggleScanState(s) ==
  [s EXCEPT !.wfRunningState = s.scanChecked,
            !.scanText = IF s.scanChecked THEN "Stop" ELSE "Start scan"]

onToggleScan(s) == onToggleScanState(onToggleScanButton(s))

setMinBwForZoom(s, bw) ==
  IF bw = s.sampleRateSpin
    THEN [s EXCEPT !.minBwForZoom = bw]
    ELSE onSampleRateSpinChanged(
           [s EXCEPT !.minBwForZoom = bw, !.sampleRateSpin = bw])

(***************************************************************************)
(* PanoramicDialogConfig::deserialize.                                     *)
(***************************************************************************)
\* The fields that deserialize loads by name.
LoadFields ==
  {"fullRange", "rangeMin", "rangeMax", "panRangeMin", "panRangeMax",
   "lnbFreq", "device", "antenna", "sampRate", "strategy", "partitioning",
   "palette"}

\* Names of fields of configuration objects that are not those of a field:
\* gains, and names that deserialize does not know.
GainKeys == {"gain.rtl.LNA", "gain.rtl.VGA", "gain.x"}
OtherKeys == {"gain", "gainx", "version"}
ConfKeys == LoadFields \cup GainKeys \cup OtherKeys

\* The names of the fields of the configuration objects that are loaded.
ConfKeySets ==
  { {}, {"fullRange"}, {"rangeMin", "rangeMax"}, LoadFields,
    {"gain.rtl.LNA"}, {"gain.rtl.VGA", "gain.x", "sampRate"},
    {"gain", "gainx", "version"}, {"palette", "version", "gain.rtl.LNA"} }

\* name.substr(0, 5) of the names above.
Substr5 ==
  [k \in ConfKeys |->
     CASE k \in GainKeys -> "gain."
       [] k = "gain" -> "gain"
       [] k = "gainx" -> "gainx"
       [] k = "version" -> "versi"
       [] k = "fullRange" -> "fullR"
       [] k = "rangeMin" -> "range"
       [] k = "rangeMax" -> "range"
       [] k = "panRangeMin" -> "panRa"
       [] k = "panRangeMax" -> "panRa"
       [] k = "lnbFreq" -> "lnbFr"
       [] k = "device" -> "devic"
       [] k = "antenna" -> "anten"
       [] k = "sampRate" -> "sampR"
       [] k = "strategy" -> "strat"
       [] k = "partitioning" -> "parti"
       [] k = "palette" -> "palet"]

\* confGet that answers 0 for a missing field.
confGetZero(conf, name, dfl) ==
  IF name \in DOMAIN conf THEN conf[name] ELSE 0

\* Suscan::Object::get(name, dfl): the field, or dfl if there is none.
confGet(conf, name, dfl) ==
  IF name \in DOMAIN conf THEN conf[name] ELSE dfl

\* The gains after the loop over the fields of conf.
deserializeGains(gains, conf) ==
  [k \in DOMAIN gains \cup {n \in DOMAIN conf : Substr5[n] = "gain."} |->
     IF k \in DOMAIN conf /\ Substr5[k] = "gain."
       THEN confGet(conf, k, 0)
       ELSE gains[k]]

deserialize(c, conf) ==
  [c EXCEPT
     !.fullRange = confGet(conf, "fullRange", @),
     !.rangeMin = confGet(conf, "rangeMin", @),
     !.rangeMax = confGet(conf, "rangeMax", @),
     !.panRangeMin = confGet(conf, "panRangeMin", @),
     !.panRangeMax = confGet(conf, "panRangeMax", @),
     !.lnbFreq = confGet(conf, "lnbFreq", @),
     !.device = confGet(conf, "device", @),
     !.antenna = confGet(conf, "antenna", @),
     !.sampRate = confGet(conf, "sampRate", @),
     !.strategy = confGet(conf, "strategy", @),
     !.partitioning = confGet(conf, "partitioning", @),
     !.palette = confGet(conf, "palette", @),
     !.gains = deserializeGains(@, conf)]

(***************************************************************************)
(* UIMediator::feedPSD.                                                    *)
(***************************************************************************)
\* max_delta, a timeval, in microseconds.
maxDelta(msgTTL) == (msgTTL \div 1000) * 1000000 + (msgTTL % 1000) * 1000

\* nextRtDelta that follows the delay of the latest message.
nextRtDeltaLatest(m, delay) == delay

\* nextRtDelta that keeps the delay of the first message.
nextRtDeltaFirst(m, delay) == IF ~m.haveRtDelta THEN delay ELSE m.rtDelta

\* rtDelta after the message: the first delay, then the least one.
nextRtDelta(m, delay) ==
  IF ~m.haveRtDelta
    THEN delay
    ELSE IF m.rtDelta > delay THEN delay ELSE m.rtDelta

\* expired that drops a message whose excess delay equals max_delta.
expiredAtLimit(m, delay) ==
  /\ m.enableMsgTTL
  /\ m.haveRtDelta
  /\ delay - nextRtDelta(m, delay) >= maxDelta(m.msgTTL)

expired(m, delay) ==
  /\ m.enableMsgTTL
  /\ m.haveRtDelta
  /\ delay - nextRtDelta(m, delay) > maxDelta(m.msgTTL)

\* feedFilter that learns the delay with the filter switched off too.
feedFilterAlways(m, delay) ==
  [m EXCEPT !.haveRtDelta = TRUE, !.rtDelta = nextRtDelta(m, delay)]

\* The filter of feedPSD: the state it leaves.
feedFilter(m, delay) ==
  IF m.enableMsgTTL
    THEN [m EXCEPT !.haveRtDelta = TRUE, !.rtDelta = nextRtDelta(m, delay)]
    ELSE m

\* feedOutput that feeds an expired message as any other.
feedOutputAll(m, isExpired, rate, measured) ==
  [m EXCEPT !.sampleRate = rate,
            !.processRate = measured,
            !.out = <<"setSampleRate", "setProcessRate",
                      "averagerFeed", "spectrumFeed">>]

\* The tail of feedPSD: the sample rate is always set; the message is fed
\* to the averager and to the spectrum unless it has expired.
feedOutput(m, isExpired, rate, measured) ==
  IF isExpired
    THEN [m EXCEPT !.sampleRate = rate, !.out = <<"setSampleRate">>]
    ELSE [m EXCEPT !.sampleRate = rate,
                   !.processRate = measured,
                   !.out = <<"setSampleRate", "setProcessRate",
                             "averagerFeed", "spectrumFeed">>]

feedPSD(m, delay, rate, measured) ==
  feedOutput(feedFilter(m, delay), expired(m, delay), rate, measured)

\* What is remembered of a message of the session: its delay, whether the
\* filter was on, whether it was fed to the spectrum, and the state of the
\* filter when it arrived.
Frame(m, delay) ==
  [delay |-> delay, on |-> m.enableMsgTTL, fed |-> ~expired(m, delay),
   have |-> m.haveRtDelta, delta |-> m.rtDelta]

\* What is remembered of the last message: its rates, and the process rate
\* when it arrived.
NoMessage == [rate |-> 0, measured |-> 0, processRate |-> 0]

Message(m, rate, measured) ==
  [rate |-> rate, measured |-> measured, processRate |-> m.processRate]

\* sessionRestart that keeps what the filter has learned.
sessionRestartKeep(m) == [m EXCEPT !.hist = << >>]

\* A new acquisition session starts with a filter that has seen no message.
sessionRestart(m) == [m EXCEPT !.haveRtDelta = FALSE, !.hist = << >>]

(***************************************************************************)
(* UIMediator::onRangeChanged.                                             *)
(***************************************************************************)
\* std::floor of a value in tenths.
Floor(x) == (x \div 10) * 10

RECURSIVE onRangeChanged(_, _, _, _)

\* MainSpectrum::setPandapterRange: the range is kept, and each
\* rangeChanged the spectrum emits meanwhile runs the slot.
spectrumSetPandapterRange(m, min, max, echo) ==
  IF echo = << >>
    THEN [m EXCEPT !.pandapterRange = [min |-> min, max |-> max],
                   !.out = Append(@, "setPandapterRange")]
    ELSE onRangeChanged(
           [m EXCEPT !.pandapterRange = [min |-> min, max |-> max],
                     !.out = Append(@, "setPandapterRange"),
                     !.nested = @ + 1],
           echo[1].min, echo[1].max, Tail(echo))

fftPanelSetPandRange(m, min, max) ==
  [m EXCEPT !.fftPandRange = [min |-> min, max |-> max],
            !.out = @ \o <<"setPandRangeMin", "setPandRangeMax">>]

\* With the range lock of the FFT panel on, the waterfall follows.
rangeLockApply(m, min, max) ==
  IF m.rangeLock
    THEN [m EXCEPT !.wfRange = [min |-> min, max |-> max],
                   !.fftWfRange = [min |-> Floor(min), max |-> Floor(max)],
                   !.out = @ \o <<"setWfRange", "setWfRangeMin",
                                  "setWfRangeMax">>]
    ELSE m

\* rangeRelease that leaves the flag set.
rangeReleaseNever(m) == m

\* The end of the guarded block.
rangeRelease(m) == [m EXCEPT !.settingRanges = FALSE]

onRangeChanged(m, min, max, echo) ==
  IF ~m.settingRanges
    THEN rangeRelease(
           rangeLockApply(
             fftPanelSetPandRange(
               spectrumSetPandapterRange(
                 [m EXCEPT !.settingRanges = TRUE], min, max, echo),
               Floor(min), Floor(max)),
             min, max))
    ELSE m

(***************************************************************************)
(* SourceWidget: the stored source info and what it enables.  The values   *)
(* shown by the controls, the gains and the antennas are left out.         *)
(***************************************************************************)
testPermission(info, perm) == perm \in info.permissions

\* SourceWidget::setThrottleable, as far as the controls are enabled.
setThrottleable(w, val) ==
  [w EXCEPT
     !.throttleCheckEnabled = val /\ testPermission(w.sourceInfo, "throttle"),
     !.bwSpinEnabled = ~(val /\ testPermission(w.sourceInfo, "throttle"))]

\* The first part of refreshUi: what depends on the profile.
refreshUiProfile(w) ==
  IF w.profile # NoProfile
    THEN [setThrottleable(w, w.profile.type # "SDR" \/ w.profile.remote)
            EXCEPT
            !.antennaComboEnabled = (w.profile.type = "SDR"),
            !.bwSpinEnabled = (w.profile.type = "SDR"),
            !.ppmSpinBoxEnabled = (w.profile.type = "SDR" \/ w.profile.remote)]
    ELSE w

\* The second part of refreshUi: what the stored source info permits.
refreshUiPermissions(w) ==
  [w EXCEPT
     !.dcRemoveCheckEnabled = testPermission(w.sourceInfo, "dcRemove"),
     !.swapIQCheckEnabled = testPermission(w.sourceInfo, "iqReverse"),
     !.agcEnabledCheckEnabled = testPermission(w.sourceInfo, "agc"),
     !.bwSpinEnabled = @ /\ testPermission(w.sourceInfo, "bw"),
     !.ppmSpinBoxEnabled = @ /\ testPermission(w.sourceInfo, "ppm"),
     !.throttleCheckEnabled = @ /\ testPermission(w.sourceInfo, "throttle"),
     !.antennaComboEnabled = @ /\ testPermission(w.sourceInfo, "antenna"),
     !.autoGainFrameEnabled = testPermission(w.sourceInfo, "gain")]

swRefreshUi(w) == refreshUiPermissions(refreshUiProfile(w))

\* applySourceInfo: the info is stored unless one has been stored before.
applySourceInfoStore(w, info) ==
  IF ~w.haveSourceInfo
    THEN [w EXCEPT !.sourceInfo = info, !.haveSourceInfo = TRUE]
    ELSE w

applySourceInfo(w, info) == swRefreshUi(applySourceInfoStore(w, info))

\* setProfile: the stored source info is reset and the profile kept.
setProfile(w, profile) ==
  swRefreshUi([w EXCEPT !.sourceInfo = DefaultInfo, !.profile = profile])

(***************************************************************************)
(* State.                                                                  *)
(***************************************************************************)
\* The last event handled: its inputs a and b, and what the range, the
\* centre of the waterfall and the limits of the last frame were when it
\* arrived.
NoEvent ==
  [op |-> "none", a |-> 0, b |-> 0, ps |-> 0, pe |-> 0, pc |-> 0,
   pfs |-> 0, pfe |-> 0, data |-> << >>]

Event(op, a, b, s) ==
  [op |-> op, a |-> a, b |-> b,
   ps |-> s.rangeStartSpin.val, pe |-> s.rangeEndSpin.val, pc |-> s.wfCenter,
   pfs |-> s.freqStart, pfe |-> s.freqEnd, data |-> << >>]

Init ==
  /\ d = [ deviceMap |-> {},
           device |-> NoDevice,
           lnb |-> 0,
           fullRange |-> FALSE,
           rangeStartSpin |-> [val |-> 0, min |-> 0, max |-> MaxFreq],
           rangeEndSpin |-> [val |-> 0, min |-> 0, max |-> MaxFreq],
           running |-> FALSE,
           deviceEnabled |-> TRUE,
           fullRangeEnabled |-> TRUE,
           rangeEnabled |-> TRUE,
           lnbEnabled |-> TRUE,
           wfCenter |-> 0,
           wfSampleRate |-> 0,
           fixedFreqMode |-> FALSE,
           adjustingRange |-> FALSE,
           currBw |-> 0,
           minBwForZoom |-> 0,
           relBwSlider |-> 100,
           sampleRateSpin |-> 0,
           sampRate |-> 0,
           freqStart |-> 0,
           freqEnd |-> 0,
           frames |-> 0,
           saved |-> [start |-> 0, end |-> 0, data |-> << >>],
           exportEnabled |-> FALSE,
           scanChecked |-> FALSE,
           scanText |-> "Start scan",
           sampleRateEnabled |-> TRUE,
           bannedDevice |-> NoDevice,
           wfRunningState |-> FALSE,
           exporting |-> FALSE,
           log |-> << >> ]
  /\ ev = NoEvent
  /\ um = [ enableMsgTTL |-> TRUE,
            msgTTL |-> MsgTTL,
            haveRtDelta |-> FALSE,
            rtDelta |-> 0,
            sampleRate |-> 0,
            processRate |-> 0,
            out |-> << >>,
            hist |-> << >>,
            last |-> NoMessage,
            settingRanges |-> FALSE,
            rangeLock |-> FALSE,
            pandapterRange |-> [min |-> 0, max |-> 0],
            fftPandRange |-> [min |-> 0, max |-> 0],
            wfRange |-> [min |-> 0, max |-> 0],
            fftWfRange |-> [min |-> 0, max |-> 0],
            nested |-> 0,
            range |-> [min |-> 0, max |-> 0] ]
  /\ fs = [path \in Paths |-> << >>]
  /\ cfg = [ config |-> [ fullRange |-> 0, rangeMin |-> 0, rangeMax |-> 0,
                          panRangeMin |-> 0, panRangeMax |-> 0, lnbFreq |-> 0,
                          device |-> 0, antenna |-> 0, sampRate |-> 0,
                          strategy |-> 0, partitioning |-> 0, palette |-> 0,
                          gains |-> << >> ],
             loaded |-> << >> ]
  /\ sw = [ sourceInfo |-> DefaultInfo,
            haveSourceInfo |-> FALSE,
            profile |-> NoProfile,
            dcRemoveCheckEnabled |-> TRUE,
            swapIQCheckEnabled |-> TRUE,
            agcEnabledCheckEnabled |-> TRUE,
            bwSpinEnabled |-> TRUE,
            ppmSpinBoxEnabled |-> TRUE,
            throttleCheckEnabled |-> TRUE,
            antennaComboEnabled |-> TRUE,
            autoGainFrameEnabled |-> TRUE ]

\* A handler starts with an empty log.
Begin == [d EXCEPT !.log = << >>]

(***************************************************************************)
(* Events.                                                                 *)
(***************************************************************************)
PopulateDeviceCombo ==
  /\ d.deviceMap = {}
  /\ d' = populateDeviceCombo(Begin, DeviceNames)
  /\ ev' = Event("populate", 0, 0, d)
  /\ UNCHANGED <<um, fs, cfg, sw>>

DeviceActivated ==
  \E n \in d.deviceMap :
    /\ d.deviceEnabled
    /\ d' = onDeviceChanged([Begin EXCEPT !.device = n])
    /\ ev' = Event("device", n, 0, d)
    /\ UNCHANGED <<um, fs, cfg, sw>>

LnbOffsetEdited ==
  \E v \in LnbVals :
    /\ d.lnbEnabled
    /\ v # d.lnb
    /\ d' = onLnbOffsetChanged([Begin EXCEPT !.lnb = v])
    /\ ev' = Event("lnb", v, 0, d)
    /\ UNCHANGED <<um, fs, cfg, sw>>

FullRangeToggled ==
  /\ d.fullRangeEnabled
  /\ d' = onFullRangeChanged([Begin EXCEPT !.fullRange = ~d.fullRange])
  /\ ev' = Event("fullRange", 0, 0, d)
  /\ UNCHANGED <<um, fs, cfg, sw>>

RangeStartEdited ==
  \E v \in RangeInputs :
    /\ d.rangeEnabled
    /\ d' = rangeStartSetValue(Begin, v)
    /\ ev' = Event("rangeStart", v, 0, d)
    /\ UNCHANGED <<um, fs, cfg, sw>>

RangeEndEdited ==
  \E v \in RangeInputs :
    /\ d.rangeEnabled
    /\ d' = rangeEndSetValue(Begin, v)
    /\ ev' = Event("rangeEnd", v, 0, d)
    /\ UNCHANGED <<um, fs, cfg, sw>>

\* A zoom gesture leaves the waterfall showing span Hz around the frequency
\* c, that is with the centre offset c - wfCenter, and emits newZoomLevel.
ZoomGesture ==
  \E c \in ZoomCenters, span \in SpanInputs :
    /\ d' = onNewZoomLevel(Begin, c - d.wfCenter, span)
    /\ ev' = Event("zoom", c - d.wfCenter, span, d)
    /\ UNCHANGED <<um, fs, cfg, sw>>

\* A drag of the frequency axis moves the centre of the waterfall to freq and
\* emits newCenterFreq.
PanGesture ==
  \E freq \in PanInputs :
    /\ d' = onNewCenterFreq([Begin EXCEPT !.wfCenter = freq], freq)
    /\ ev' = Event("pan", freq, 0, d)
    /\ UNCHANGED <<um, fs, cfg, sw>>

SetMinBwForZoom ==
  \E bw \in MinBwInputs :
    /\ bw # d.minBwForZoom
    /\ d' = setMinBwForZoom(Begin, bw)
    /\ ev' = Event("minBw", bw, 0, d)
    /\ UNCHANGED <<um, fs, cfg, sw>>

RelBwSliderMoved ==
  \E v \in RelBwVals :
    /\ v # d.relBwSlider
    /\ d' = Log([Begin EXCEPT !.relBwSlider = v], "relBandwidthChanged", 0, 0, FALSE)
    /\ ev' = Event("relBw", v, 0, d)
    /\ UNCHANGED <<um, fs, cfg, sw>>

\* The scanner delivers a frame.
Feed ==
  \E freqStart \in FrameStarts, freqEnd \in FrameEnds :
   \E data \in FrameData(freqStart, freqEnd) :
    /\ d.frames < MaxFrames
    /\ d' = feed(Begin, freqStart, freqEnd, data)
    /\ ev' = [Event("feed", freqStart, freqEnd, d) EXCEPT !.data = data]
    /\ UNCHANGED <<um, fs, cfg, sw>>

\* The application tells the dialog which device the main window uses.
SetBannedDevice ==
  \E desc \in DeviceNames \cup {NoDevice} :
    /\ desc # d.bannedDevice
    /\ d' = setBannedDevice(Begin, desc)
    /\ ev' = Event("banned", desc, 0, d)
    /\ UNCHANGED <<um, fs, cfg, sw>>

\* A click on the scan button: the button toggles, clicked runs
\* onToggleScan.  a tells whether the click pressed the button.
ScanToggled ==
  /\ d' = onToggleScan([Begin EXCEPT !.scanChecked = ~d.scanChecked])
  /\ ev' = Event("toggle", IF d.scanChecked THEN 0 ELSE 1, 0, d)
  /\ UNCHANGED <<um, fs, cfg, sw>>

\* The application tells the dialog that the scanner runs or has stopped.
\* a is the new state, b the state the dialog was in.
SetRunning ==
  \E running \in BOOLEAN :
    /\ d' = setRunning(Begin, running)
    /\ ev' = Event("setRunning", IF running THEN 1 ELSE 0,
                   IF d.running THEN 1 ELSE 0, d)
    /\ UNCHANGED <<um, fs, cfg, sw>>

SampleRateSpinEdited ==
  \E v \in SampRateInputs :
    /\ d.sampleRateEnabled
    /\ v # d.sampleRateSpin
    /\ d' = onSampleRateSpinChanged([Begin EXCEPT !.sampleRateSpin = v])
    /\ ev' = Event("sampRate", v, 0, d)
    /\ UNCHANGED <<um, fs, cfg, sw>>

\* A click on the export button opens the file dialog.
ExportClicked ==
  /\ d.exportEnabled
  /\ ~d.exporting
  /\ d' = onExportOpen(Begin)
  /\ ev' = Event("export", 0, 0, d)
  /\ UNCHANGED <<um, fs, cfg, sw>>

\* The user accepts the file dialog with a path: b tells whether the export
\* succeeded.
ExportAccepted ==
  \E path \in Paths :
    /\ d.exporting
    /\ fs' = exportToFile(d.saved, fs, path).files
    /\ d' = onExportAccepted(Begin, exportToFile(d.saved, fs, path).ok, path)
    /\ ev' = Event("exportAccepted", path,
                   IF exportToFile(d.saved, fs, path).ok THEN 1 ELSE 0, d)
    /\ UNCHANGED <<um, cfg, sw>>

\* The user closes the file dialog.
ExportRejected ==
  /\ d.exporting
  /\ d' = onExportRejected(Begin)
  /\ ev' = Event("exportRejected", 0, 0, d)
  /\ UNCHANGED <<um, fs, cfg, sw>>

\* A configuration object is loaded.
Deserialize ==
  \E keys \in ConfKeySets, v \in ConfValues, w \in ConfValues :
    /\ cfg' = [config |->
                 deserialize(cfg.config,
                   [k \in keys |-> IF k \in GainKeys THEN w ELSE v]),
               loaded |-> [k \in keys |-> IF k \in GainKeys THEN w ELSE v]]
    /\ UNCHANGED <<d, ev, um, fs, sw>>

\* A PSD message arrives at the mediator.
FeedPSD ==
  \E delay \in PsdDelays, r \in PsdRates :
    /\ Len(um.hist) < MaxSession
    /\ um' = [feedPSD(um, delay, r.rate, r.measured) EXCEPT
                !.hist = Append(@, Frame(um, delay)),
                !.last = Message(um, r.rate, r.measured)]
    /\ UNCHANGED <<d, ev, fs, cfg, sw>>

\* guiConfig.enableMsgTTL is switched in the settings.
MsgTTLToggled ==
  /\ um' = [um EXCEPT !.enableMsgTTL = ~@, !.out = << >>]
  /\ UNCHANGED <<d, ev, fs, cfg, sw>>

\* The acquisition is stopped and started again.
SessionRestart ==
  /\ um.hist # << >>
  /\ um' = [sessionRestart(um) EXCEPT !.out = << >>]
  /\ UNCHANGED <<d, ev, fs, cfg, sw>>

\* The spectrum reports a new pandapter range, with the range lock of the
\* FFT panel on or off.  The range reported is remembered, and how many
\* rangeChanged signals arrived while it was being handled.
RangeChanged ==
  \E r \in PandRanges, lock \in BOOLEAN :
    \E echo \in RangeEchoes(r) :
      /\ um' = onRangeChanged(
                 [um EXCEPT !.rangeLock = lock, !.out = << >>,
                            !.nested = 0, !.range = r],
                 r.min, r.max, echo)
      /\ UNCHANGED <<d, ev, fs, cfg, sw>>

\* The analyzer reports its source info to the source widget.
ApplySourceInfo ==
  \E i \in DOMAIN SourceInfos :
    /\ sw' = applySourceInfo(sw, SourceInfos[i])
    /\ ev' = [NoEvent EXCEPT !.op = "applySourceInfo", !.a = i]
    /\ UNCHANGED <<d, um, fs, cfg>>

\* A profile is chosen for the source widget.
SetProfile ==
  \E i \in DOMAIN SourceProfiles :
    /\ sw' = setProfile(sw, SourceProfiles[i])
    /\ ev' = [NoEvent EXCEPT !.op = "setProfile", !.a = i]
    /\ UNCHANGED <<d, um, fs, cfg>>

\* The range model: device, LNB offset, full-range mode and range edits.
NextRange ==
  \/ PopulateDeviceCombo
  \/ DeviceActivated
  \/ LnbOffsetEdited
  \/ FullRangeToggled
  \/ RangeStartEdited
  \/ RangeEndEdited

SpecRange == Init /\ [][NextRange]_vars

\* Zoom and pan over the ranges that the devices leave.  The
\* zoom and pan slots read the range only through getMinFreq and getMaxFreq
\* and write none of the range model's state.
NextZoom ==
  \/ PopulateDeviceCombo
  \/ DeviceActivated
  \/ ZoomGesture
  \/ PanGesture
  \/ SetMinBwForZoom
  \/ RelBwSliderMoved

SpecZoom == Init /\ [][NextZoom]_vars

\* Frames arriving between zoom-level changes.
NextFeed ==
  \/ PopulateDeviceCombo
  \/ SetMinBwForZoom
  \/ ZoomGesture
  \/ Feed

SpecFeed == Init /\ [][NextFeed]_vars

\* The scan button, the banned device and the stored sample rate.
NextScan ==
  \/ PopulateDeviceCombo
  \/ DeviceActivated
  \/ SetBannedDevice
  \/ ScanToggled
  \/ SetRunning
  \/ SampleRateSpinEdited
  \/ SetMinBwForZoom

SpecScan == Init /\ [][NextScan]_vars

\* Frames arriving at a dialog that is started and stopped.
NextRun ==
  \/ SetRunning
  \/ Feed

SpecRun == Init /\ [][NextRun]_vars

\* Frames and exports of the last frame.
NextExport ==
  \/ Feed
  \/ ExportClicked
  \/ ExportAccepted
  \/ ExportRejected

SpecExport == Init /\ [][NextExport]_vars

\* Loads of the configuration.
NextConfig == Deserialize

SpecConfig == Init /\ [][NextConfig]_vars

\* The PSD messages of one acquisition session.
NextStale ==
  \/ FeedPSD
  \/ MsgTTLToggled

SpecStale == Init /\ [][NextStale]_vars

\* Acquisition sessions, one after another.
NextSession ==
  \/ FeedPSD
  \/ SessionRestart

SpecSession == Init /\ [][NextSession]_vars

\* The handlers that hold a re-entrancy flag.
NextGuards ==
  \/ Feed
  \/ ZoomGesture
  \/ RangeChanged

SpecGuards == Init /\ [][NextGuards]_vars

\* Profiles and source infos arriving at the source widget.
NextSource ==
  \/ ApplySourceInfo
  \/ SetProfile

SpecSource == Init /\ [][NextSource]_vars

Next ==
  NextRange \/ NextZoom \/ NextFeed \/ NextScan \/ NextRun \/ NextExport
    \/ NextConfig \/ NextStale \/ NextSession \/ NextGuards
    \/ NextSource

Spec == Init /\ [][Next]_vars

(***************************************************************************)
(* Properties.                                                             *)
(***************************************************************************)
RangeLo == d.rangeStartSpin.val

RangeHi == d.rangeEndSpin.val

\* Limits of the selected device, shifted by the LNB offset.
DeviceLo == Devices[d.device].minFreq + d.lnb

DeviceHi == Devices[d.device].maxFreq + d.lnb

IsDetail(e) == e.sig = "detailChanged"

\* The detailChanged signals of the last handler.
Details == SelectSeq(d.log, IsDetail)

\* The window a zoom gesture asks for: the display centre plus the offset of
\* the zoomed view, half a span to each side.
ReqMin == ev.pc + ev.a - TruncDiv2(ev.b)

ReqMax == ev.pc + ev.a + TruncDiv2(ev.b)

Reconciled == Reconcile(ReqMin, ReqMax, RangeLo, RangeHi)

InRange(e) == RangeLo <= e.a /\ e.a <= e.b /\ e.b <= RangeHi

Min(a, b) == IF a < b THEN a ELSE b

Max(a, b) == IF a > b THEN a ELSE b

\* C1 (as claimed): after every zoom-level change the window emitted in
\* detailChanged lies inside the range, in Sweep and in FixedFrequency mode.
C1_WindowInRange ==
  ev.op = "zoom" => \A i \in DOMAIN Details : InRange(Details[i])

\* C1, Sweep mode only: a zoom-level change emits exactly one window, with
\* min <= max and the mode just decided; when that mode is Sweep the window
\* lies inside the range, rangeMin <= min <= max <= rangeMax.
C1_SweepWindowInRange ==
  ev.op = "zoom" =>
    /\ Len(Details) = 1
    /\ Details[1].a <= Details[1].b
    /\ Details[1].f = d.fixedFreqMode
    /\ ~d.fixedFreqMode => InRange(Details[1])

\* With a device selected and a range wider than minBwForZoom, a zoom-level
\* change has ended in FixedFrequency mode with a window that reaches above
\* the range; all the numbers involved are exact as floats.
C1_Witness ==
  /\ ev.op = "zoom"
  /\ getSelectedDevice(d)
  /\ d.fixedFreqMode
  /\ d.minBwForZoom > 0
  /\ RangeHi < FloatMantissa
  /\ RangeHi - RangeLo > d.minBwForZoom
  /\ Len(Details) = 1
  /\ Details[1].f
  /\ Details[1].b > RangeHi

\* C2: with a device selected, the stored range lies inside the device
\* limits shifted by the LNB offset, lo <= min <= max <= hi, whatever values
\* were typed into the range spin boxes.
C2_RangeWithinDeviceBounds ==
  getSelectedDevice(d) =>
    /\ DeviceLo <= RangeLo
    /\ RangeLo <= RangeHi
    /\ RangeHi <= DeviceHi

\* A value above the device limits was typed as the range start, above the
\* range end held.
C2_Witness ==
  /\ ev.op = "rangeStart"
  /\ getSelectedDevice(d)
  /\ ev.a > DeviceHi
  /\ ev.pe < DeviceHi
  /\ RangeLo = ev.pe
  /\ RangeHi = DeviceHi

\* C3: an edit that leaves the start above the end is stored exchanged: the
\* stored start is the smaller and the stored end the larger of the value
\* typed (clamped to the limits of the spin box) and the value the other spin
\* box held.
C3_SwappedRangeExchanged ==
  /\ ev.op = "rangeStart" =>
       LET v == Clamp(ev.a, d.rangeStartSpin.min, d.rangeStartSpin.max)
       IN  RangeLo = Min(v, ev.pe) /\ RangeHi = Max(v, ev.pe)
  /\ ev.op = "rangeEnd" =>
       LET v == Clamp(ev.a, d.rangeEndSpin.min, d.rangeEndSpin.max)
       IN  RangeLo = Min(v, ev.ps) /\ RangeHi = Max(v, ev.ps)

\* A range start above the range end was typed, and the two were exchanged.
C3_Witness ==
  /\ ev.op = "rangeStart"
  /\ ev.a > ev.pe
  /\ ev.pe > ev.ps
  /\ RangeLo = ev.pe
  /\ RangeHi = ev.a

\* C4: when the device limits are applied (device or LNB offset change) the
\* range held is clamped into [lo, hi]; if it is then narrower than 1 Hz, or
\* full-range mode is on, it becomes [lo, hi]; otherwise it is the clamped
\* range, so a range inside the limits stays as it was.
C4_SetRangesClamps ==
  (ev.op \in {"populate", "device", "lnb"} /\ getSelectedDevice(d)) =>
    LET cs == Clamp(ev.ps, DeviceLo, DeviceHi)
        ce == Clamp(ev.pe, DeviceLo, DeviceHi)
    IN  IF Abs(ce - cs) < 1 \/ d.fullRange
          THEN RangeLo = DeviceLo /\ RangeHi = DeviceHi
          ELSE RangeLo = cs /\ RangeHi = ce

\* An LNB offset change has clamped one edge of a range that stays wider
\* than 1 Hz and is not the device's whole span.
C4_Witness ==
  /\ ev.op = "lnb"
  /\ getSelectedDevice(d)
  /\ ~d.fullRange
  /\ RangeLo = DeviceLo
  /\ RangeLo # ev.ps
  /\ RangeHi = ev.pe
  /\ RangeHi < DeviceHi

\* C5: with a device selected, switching full-range mode on sets the range
\* to the device limits shifted by the LNB offset, whatever it was;
\* switching it off leaves the range as it was.
C5_FullRangeToggle ==
  ev.op = "fullRange" =>
    /\ (d.fullRange /\ getSelectedDevice(d)) =>
         RangeLo = DeviceLo /\ RangeHi = DeviceHi
    /\ ~d.fullRange => RangeLo = ev.ps /\ RangeHi = ev.pe

\* Full-range mode was switched on over a narrower range.
C5_Witness ==
  /\ ev.op = "fullRange"
  /\ d.fullRange
  /\ getSelectedDevice(d)
  /\ ev.ps > DeviceLo
  /\ ev.pe < DeviceHi
  /\ RangeLo = DeviceLo
  /\ RangeHi = DeviceHi

\* C6 (as claimed): after a zoom-level change the mode is FixedFrequency
\* exactly when the width W of the reconciled window satisfies
\* W <= minBwForZoom * relBw, in exact arithmetic (here in quarters of a Hz).
C6_ModeRule ==
  ev.op = "zoom" =>
    (d.fixedFreqMode <=>
       4 * (Reconciled.max - Reconciled.min) <= d.minBwForZoom * getRelBw(d))

\* C6, where floats are exact: when the width of the reconciled window and
\* minBwForZoom are below 2^24 the mode follows the exact rule, so a width
\* equal to the threshold gives FixedFrequency and one Hz more gives Sweep.
C6_ModeRuleSmall ==
  (/\ ev.op = "zoom"
   /\ Reconciled.max - Reconciled.min < FloatMantissa
   /\ d.minBwForZoom < FloatMantissa) =>
    (d.fixedFreqMode <=>
       4 * (Reconciled.max - Reconciled.min) <= d.minBwForZoom * getRelBw(d))

\* A reconciled window one Hz wider than minBwForZoom * relBw has ended in
\* FixedFrequency mode.
C6_Witness ==
  /\ ev.op = "zoom"
  /\ d.minBwForZoom > 0
  /\ 4 * (Reconciled.max - Reconciled.min) = d.minBwForZoom * getRelBw(d) + 4
  /\ d.fixedFreqMode

\* C7 (as claimed): in FixedFrequency mode the window emitted is
\* [center - minBwForZoom/2, center + minBwForZoom/2] around the tuned
\* centre.
C7_FixedWindowMinBw ==
  (ev.op = "zoom" /\ d.fixedFreqMode) =>
    \A i \in DOMAIN Details :
      /\ Details[i].a = ev.pc - TruncDiv2(d.minBwForZoom)
      /\ Details[i].b = ev.pc + TruncDiv2(d.minBwForZoom)

\* C7 (amended): in FixedFrequency mode the window emitted is
\* [center - span/2, center + span/2], where center is the tuned centre of
\* the waterfall (not the centre of the zoomed view), which the handler
\* leaves as it was, and span is the span the waterfall shows; only the
\* current bandwidth is set to minBwForZoom.
C7_FixedWindowSpan ==
  (ev.op = "zoom" /\ d.fixedFreqMode) =>
    /\ Len(Details) = 1
    /\ Details[1].a = ev.pc - TruncDiv2(ev.b)
    /\ Details[1].b = ev.pc + TruncDiv2(ev.b)
    /\ d.wfCenter = ev.pc
    /\ d.currBw = d.minBwForZoom

\* FixedFrequency mode was entered from a view whose centre is off the tuned
\* centre and whose span is not minBwForZoom.
C7_Witness ==
  /\ ev.op = "zoom"
  /\ d.fixedFreqMode
  /\ ev.a # 0
  /\ ev.b > 0
  /\ ev.b # d.minBwForZoom
  /\ Len(Details) = 1
  /\ Details[1].a = ev.pc - TruncDiv2(ev.b)
  /\ Details[1].b = ev.pc + TruncDiv2(ev.b)

\* C8: a zoom request no wider than the range that is over exactly one edge
\* of it is reconciled to the same window moved inward by what is over: same
\* width, the edge that was over now on the range edge.  In Sweep mode this
\* is the window emitted.
C8_ShiftInward ==
  (/\ ev.op = "zoom"
   /\ ReqMax - ReqMin <= RangeHi - RangeLo
   /\ (ReqMin < RangeLo) # (ReqMax > RangeHi)) =>
    /\ Reconciled.max - Reconciled.min = ReqMax - ReqMin
    /\ ReqMin < RangeLo => Reconciled.min = RangeLo
    /\ ReqMax > RangeHi => Reconciled.max = RangeHi
    /\ ~d.fixedFreqMode =>
         /\ Len(Details) = 1
         /\ Details[1].a = Reconciled.min
         /\ Details[1].b = Reconciled.max

\* A request over the upper edge only was moved inward and emitted.
C8_Witness ==
  /\ ev.op = "zoom"
  /\ ~d.fixedFreqMode
  /\ ReqMax > RangeHi
  /\ ReqMin > RangeLo
  /\ ReqMax - ReqMin < RangeHi - RangeLo
  /\ ReqMax - ReqMin > 0
  /\ Len(Details) = 1
  /\ Details[1].b = RangeHi
  /\ Details[1].a = ReqMin - (ReqMax - RangeHi)

\* C9: a zoom request wider than the range is clamped at both edges: the
\* horizontal zoom is reset, before anything else is asked of the
\* waterfall, and the reconciled window is the whole range
\* [rangeMin, rangeMax].  In Sweep mode this is the window emitted.
C9_BothClampedResets ==
  (ev.op = "zoom" /\ ReqMax - ReqMin > RangeHi - RangeLo) =>
    /\ Len(d.log) > 0
    /\ d.log[1].sig = "resetHorizontalZoom"
    /\ Reconciled.min = RangeLo
    /\ Reconciled.max = RangeHi
    /\ ~d.fixedFreqMode =>
         /\ Len(Details) = 1
         /\ Details[1].a = RangeLo
         /\ Details[1].b = RangeHi

\* A request wider than the range, over its upper edge only, was reset to
\* the whole range.
C9_Witness ==
  /\ ev.op = "zoom"
  /\ ~d.fixedFreqMode
  /\ ReqMax - ReqMin > RangeHi - RangeLo
  /\ ReqMin >= RangeLo
  /\ RangeLo < RangeHi
  /\ d.log[1].sig = "resetHorizontalZoom"
  /\ Len(Details) = 1
  /\ Details[1].a = RangeLo
  /\ Details[1].b = RangeHi

\* C10: on a pan to freq with 0 <= currBw <= rangeMax - rangeMin the window
\* emitted lies inside the range; when [freq - currBw/2, freq + currBw/2] is
\* over an edge it is the window of width currBw with that edge on the range
\* edge.  Range [0, 1000000], width 200000, centre 1050000 gives
\* [800000, 1000000].
C10_PanSlides ==
  /\ (ev.op = "pan" /\ 0 <= d.currBw /\ d.currBw <= RangeHi - RangeLo) =>
       /\ Len(Details) = 1
       /\ RangeLo <= Details[1].a
       /\ Details[1].b <= RangeHi
       /\ ev.a - TruncDiv2(d.currBw) < RangeLo =>
            Details[1].a = RangeLo /\ Details[1].b = RangeLo + d.currBw
       /\ ev.a + TruncDiv2(d.currBw) > RangeHi =>
            Details[1].b = RangeHi /\ Details[1].a = RangeHi - d.currBw
  /\ LET w == PanWindow(1050000, 200000, 0, 1000000)
     IN  w.min = 800000 /\ w.max = 1000000

\* A pan past the upper edge, with a window narrower than the range, was
\* slid back.
C10_Witness ==
  /\ ev.op = "pan"
  /\ d.currBw > 1
  /\ d.currBw < RangeHi - RangeLo
  /\ ev.a > RangeHi
  /\ Len(Details) = 1
  /\ Details[1].b = RangeHi
  /\ Details[1].a = RangeHi - d.currBw

\* C11 (as claimed): on a pan with currBw > rangeMax - rangeMin the window
\* emitted is [rangeMin, rangeMax], whatever the new centre.
C11_WidePanFullRange ==
  (ev.op = "pan" /\ d.currBw > RangeHi - RangeLo) =>
    \A i \in DOMAIN Details :
      Details[i].a = RangeLo /\ Details[i].b = RangeHi

\* C11, both edges: on a pan with currBw > rangeMax - rangeMin whose window
\* [freq - currBw/2, freq + currBw/2] reaches both edges of the range, the
\* one window emitted is [rangeMin, rangeMax].
C11_WidePanBothEdges ==
  (/\ ev.op = "pan"
   /\ d.currBw > RangeHi - RangeLo
   /\ ev.a - TruncDiv2(d.currBw) <= RangeLo
   /\ ev.a + TruncDiv2(d.currBw) >= RangeHi) =>
    /\ Len(Details) = 1
    /\ Details[1].a = RangeLo
    /\ Details[1].b = RangeHi

\* A pan with a window wider than the range, over the lower edge only, has
\* emitted a window that starts on the lower edge and ends above the range.
C11_Witness ==
  /\ ev.op = "pan"
  /\ getSelectedDevice(d)
  /\ d.currBw > RangeHi - RangeLo
  /\ ev.a - TruncDiv2(d.currBw) <= RangeLo
  /\ ev.a + TruncDiv2(d.currBw) < RangeHi
  /\ Len(Details) = 1
  /\ Details[1].a = RangeLo
  /\ Details[1].b = RangeLo + d.currBw
  /\ Details[1].b > RangeHi

\* The step is a zoom-level change that asks again for the window of the
\* zoom-level change before it: same display centre and span (the range and
\* the threshold cannot change in between).
SameZoomAgain ==
  /\ ev.op = "zoom"
  /\ ev'.op = "zoom"
  /\ ev'.b = ev.b
  /\ ev'.pc + ev'.a = ev.pc + ev.a

\* C12 (as claimed): of two identical zoom-level changes in a row only the
\* first emits detailChanged; the second emits nothing.
C12_SecondZoomSilent == [][SameZoomAgain => Len(Details') = 0]_vars

\* C12, what the second submission does: it emits the window of the first
\* once more, and leaves the mode, the current bandwidth and the centre and
\* sample rate of the waterfall as they are.
C12_SecondZoomRepeats ==
  [][SameZoomAgain =>
       /\ Details' = Details
       /\ Len(Details') = 1
       /\ d'.fixedFreqMode = d.fixedFreqMode
       /\ d'.currBw = d.currBw
       /\ d'.wfCenter = d.wfCenter
       /\ d'.wfSampleRate = d.wfSampleRate]_vars

\* C13 (as claimed): a pan emits no detailChanged whose width is the
\* current width.
C13_PanSameWidthSilent ==
  ev.op = "pan" =>
    \A i \in DOMAIN Details : Details[i].b - Details[i].a # d.currBw

\* A pan inside the range has moved the centre and emitted a window of the
\* current width.
C13_Witness ==
  /\ ev.op = "pan"
  /\ ev.a # ev.pc
  /\ d.currBw > 0
  /\ ev.a - TruncDiv2(d.currBw) > RangeLo
  /\ ev.a + TruncDiv2(d.currBw) < RangeHi
  /\ Len(Details) = 1
  /\ Details[1].b - Details[1].a = d.currBw

\* C13, what a pan does: every pan emits exactly one detailChanged, with the
\* mode unchanged.
C13_PanAlwaysEmits ==
  ev.op = "pan" => Len(Details) = 1 /\ Details[1].f = d.fixedFreqMode

\* The dialog inside a programmatic update of the waterfall: the guard is
\* held (feed, line 477; onNewZoomLevel, line 999).
GuardHeld == [d EXCEPT !.adjustingRange = TRUE, !.log = << >>]

LogIndex(sig) == {i \in DOMAIN d.log : d.log[i].sig = sig}

WaterfallUpdate ==
  {"setWfRange", "setCenterFreq", "setSampleRate", "resetHorizontalZoom"}

\* C15: a frame reconfigures the waterfall (setWfRange, once, with the
\* frame's limits) exactly when its limits differ from the last frame's;
\* every call this makes comes before the frame is saved and before it is
\* handed to the waterfall; afterwards freqStart and freqEnd are the
\* frame's, the saved spectrum holds the frame's limits and the guard is
\* released.
C15_FeedReconfigures ==
  ev.op = "feed" =>
    /\ (LogIndex("setWfRange") # {}) <=> (ev.a # ev.pfs \/ ev.b # ev.pfe)
    /\ \A i \in LogIndex("setWfRange") :
         i = 1 /\ d.log[i].a = ev.a /\ d.log[i].b = ev.b
    /\ LogIndex("savedSet") = {Len(d.log) - 1}
    /\ LogIndex("setNewFftData") = {Len(d.log)}
    /\ \A i \in DOMAIN d.log :
         d.log[i].sig \in WaterfallUpdate => i < Len(d.log) - 1
    /\ d.freqStart = ev.a
    /\ d.freqEnd = ev.b
    /\ d.saved.start = ev.a
    /\ d.saved.end = ev.b
    /\ ~d.adjustingRange

\* A frame with new limits has retuned the waterfall before it was saved.
C15_Witness ==
  /\ ev.op = "feed"
  /\ ev.a # ev.pfs
  /\ ev.pfe # 0
  /\ LogIndex("setWfRange") = {1}
  /\ LogIndex("setSampleRate") # {}
  /\ LogIndex("savedSet") = {Len(d.log) - 1}
  /\ d.freqStart = ev.a

\* The delays of the messages 1..k of the session that met the filter
\* switched on.
FilteredDelays(k) == {um.hist[i].delay : i \in {j \in 1..k : um.hist[j].on}}

Least(S) == CHOOSE x \in S : \A y \in S : x <= y

\* The filter state after message k of the session.
HaveAfter(k) ==
  IF k < Len(um.hist) THEN um.hist[k + 1].have ELSE um.haveRtDelta

DeltaAfter(k) ==
  IF k < Len(um.hist) THEN um.hist[k + 1].delta ELSE um.rtDelta

\* The decisions of feedPSD on a session of messages with the given delays.
RECURSIVE Decisions(_, _)
Decisions(m, delays) ==
  IF delays = << >>
    THEN << >>
    ELSE <<~expired(m, Head(delays))>> \o
         Decisions(feedFilter(m, Head(delays)), Tail(delays))

\* C16: with the filter on, the first message of a session is fed to the
\* spectrum; a later message k is fed exactly when its delay exceeds the
\* least delay of the messages 1..k by no more than msgTTL.  Delays of
\* 100, 80, 150, 90 ms with msgTTL = 50 ms give fed, fed, dropped, fed.
C16_AcceptanceRule ==
  /\ \A k \in DOMAIN um.hist :
       um.hist[k].on =>
         IF \A j \in 1..(k - 1) : ~um.hist[j].on
           THEN um.hist[k].fed
           ELSE um.hist[k].fed <=>
                  um.hist[k].delay - Least(FilteredDelays(k))
                    <= um.msgTTL * 1000
  /\ Decisions([um EXCEPT !.enableMsgTTL = TRUE, !.haveRtDelta = FALSE],
               <<100000, 80000, 150000, 90000>>)
       = <<TRUE, TRUE, FALSE, TRUE>>

\* The session of the example, and one more: delays of 100 and 150 ms fed
\* then 150.001 ms would be dropped.
C16_Witness ==
  /\ Len(um.hist) = 4
  /\ \A k \in 1..4 : um.hist[k].on
  /\ um.hist[1].delay = 100000 /\ um.hist[1].fed
  /\ um.hist[2].delay = 80000 /\ um.hist[2].fed
  /\ um.hist[3].delay = 150000 /\ ~um.hist[3].fed
  /\ um.hist[4].delay = 90000 /\ um.hist[4].fed

\* C17: with the filter on, rtDelta after every message is the least delay
\* of the session's messages so far, and no message raises it.
C17_MinDelayMonotone ==
  \A k \in DOMAIN um.hist :
    um.hist[k].on =>
      /\ HaveAfter(k)
      /\ DeltaAfter(k) = Least(FilteredDelays(k))
      /\ um.hist[k].have => DeltaAfter(k) <= um.hist[k].delta

\* rtDelta was lowered by the second message and kept by a slower third.
C17_Witness ==
  /\ Len(um.hist) = 3
  /\ \A k \in 1..3 : um.hist[k].on
  /\ um.hist[2].delay < um.hist[1].delay
  /\ um.hist[3].delay > um.hist[1].delay
  /\ um.rtDelta = um.hist[2].delay

\* C18: the first message after the session has restarted is fed to the
\* spectrum and rtDelta becomes its delay, whatever rtDelta the session
\* before has left.
C18_RestartResets ==
  (Len(um.hist) > 0 /\ um.hist[1].on) =>
    /\ ~um.hist[1].have
    /\ um.hist[1].fed
    /\ DeltaAfter(1) = um.hist[1].delay
    /\ HaveAfter(1)

\* The first message of a second session has a delay that the rtDelta left
\* by the first session would have expired.
C18_Witness ==
  /\ Len(um.hist) = 1
  /\ um.hist[1].on
  /\ um.hist[1].delta > 0
  /\ um.hist[1].delay - um.hist[1].delta > um.msgTTL * 1000
  /\ um.hist[1].fed
  /\ um.rtDelta = um.hist[1].delay

\* C19: with the filter off, every message is fed to the spectrum and
\* leaves the filter's rtDelta and haveRtDelta as they were.
C19_FilterDisabled ==
  /\ \A k \in DOMAIN um.hist :
       ~um.hist[k].on =>
         /\ um.hist[k].fed
         /\ HaveAfter(k) = um.hist[k].have
         /\ DeltaAfter(k) = um.hist[k].delta
  /\ (Len(um.hist) > 0 /\ ~um.hist[Len(um.hist)].on /\ um.out # << >>) =>
       um.out = <<"setSampleRate", "setProcessRate",
                  "averagerFeed", "spectrumFeed">>

\* With the filter off, a message was fed whose delay the filter, had it
\* been on, would have expired.
C19_Witness ==
  /\ Len(um.hist) > 1
  /\ ~um.hist[Len(um.hist)].on
  /\ um.haveRtDelta
  /\ um.hist[Len(um.hist)].delay - um.rtDelta > um.msgTTL * 1000
  /\ um.hist[Len(um.hist)].fed
  /\ um.out = <<"setSampleRate", "setProcessRate",
                "averagerFeed", "spectrumFeed">>

\* C20: an expired message sets the sample rate to the rate it declares and
\* nothing else: the process rate stays, and neither the averager nor the
\* spectrum is fed.
C20_DroppedFrameEffect ==
  (/\ Len(um.hist) > 0
   /\ ~um.hist[Len(um.hist)].fed
   /\ um.out # << >>) =>
    /\ um.out = <<"setSampleRate">>
    /\ um.sampleRate = um.last.rate
    /\ um.processRate = um.last.processRate

\* An expired message has changed the sample rate and left the process rate
\* of the message before it.
C20_Witness ==
  /\ Len(um.hist) > 1
  /\ ~um.hist[Len(um.hist)].fed
  /\ um.out = <<"setSampleRate">>
  /\ um.sampleRate = um.last.rate
  /\ um.last.measured # um.last.processRate
  /\ um.processRate = um.last.processRate
  /\ um.processRate # 0

(***************************************************************************)
(* The scan button, the running state and the frames.                      *)
(***************************************************************************)
\* The selected device is the banned one.
BannedSelected ==
  /\ d.bannedDevice # NoDevice
  /\ getSelectedDevice(d)
  /\ d.device = d.bannedDevice

\* C21: a click that asks for a scan while the banned device is selected
\* emits no start; the button is released again and only the button, its
\* text and the waterfall's running state follow it: the range, the
\* full-range flag, the mode and the running flag stay as they were.
C21_BannedScanRefused ==
  [][(BannedSelected /\ ev'.op = "toggle" /\ ev'.a = 1) =>
       /\ d'.log = <<Entry("critical", 0, 0, FALSE)>>
       /\ ~d'.scanChecked
       /\ ~d'.wfRunningState
       /\ d'.rangeStartSpin = d.rangeStartSpin
       /\ d'.rangeEndSpin = d.rangeEndSpin
       /\ d'.fullRange = d.fullRange
       /\ d'.fixedFreqMode = d.fixedFreqMode
       /\ d'.running = d.running
       /\ d' = [d EXCEPT !.log = d'.log,
                         !.scanChecked = FALSE,
                         !.wfRunningState = FALSE,
                         !.scanText = "Start scan"]]_vars

\* The scan was asked for with the banned device selected, on a range other
\* than the initial one, and was refused.
C21_Witness ==
  /\ ev.op = "toggle"
  /\ ev.a = 1
  /\ BannedSelected
  /\ d.log = <<Entry("critical", 0, 0, FALSE)>>
  /\ ~d.scanChecked
  /\ ~d.running
  /\ d.rangeEndSpin.val > d.rangeStartSpin.val

\* The step delivers a frame to a dialog that has just been stopped.
FrameAfterStop ==
  /\ ev.op = "setRunning"
  /\ ev.a = 0
  /\ ev.b = 1
  /\ ~d.running
  /\ ev'.op = "feed"

\* The frame of the last feed, as SavedSpectrum holds a frame.
FedFrame == SavedSpectrumSet(ev.a, ev.b, ev.data)

\* C22 (as claimed): a frame delivered after the stop is discarded: the
\* saved spectrum and the frame counter stay, the display gets nothing.
C22_StoppedFrameDiscarded ==
  [][FrameAfterStop =>
       /\ d'.saved = d.saved
       /\ d'.frames = d.frames
       /\ LogIndex("setNewFftData")' = {}]_vars

\* C22, what feed does with a frame delivered after the stop: what it does
\* with any frame.
C22_StoppedFrameAccepted ==
  [][FrameAfterStop =>
       /\ d'.saved = FedFrame'
       /\ d'.frames = d.frames + 1
       /\ LogIndex("setNewFftData")' # {}
       /\ ~d'.running]_vars

\* C23: no step of a running dialog changes the stored sampRate, and the
\* step that stops the dialog leaves the sample rate control showing it.
C23_SampRateKept ==
  [][/\ d.running => d'.sampRate = d.sampRate
     /\ (d.running /\ ~d'.running) => d'.sampleRateSpin = d'.sampRate]_vars

\* The dialog was stopped after the control had been set, while it ran, to
\* a rate other than the stored one: the control shows the stored rate.
C23_Witness ==
  /\ ev.op = "setRunning"
  /\ ev.a = 0
  /\ ev.b = 1
  /\ ~d.running
  /\ d.sampRate \in SampRateInputs
  /\ d.minBwForZoom \in MinBwInputs
  /\ d.minBwForZoom # d.sampRate
  /\ d.sampleRateSpin = d.sampRate

\* C24: a frame replaces the saved spectrum as a whole (limits and samples
\* are those of the frame), counts as one frame and is handed to the
\* display after it is saved; the step that starts the dialog leaves the
\* frame counter at 0.
C24_FrameAccepted ==
  [][/\ ev'.op = "feed" =>
          /\ d'.saved = FedFrame'
          /\ d'.frames = d.frames + 1
          /\ d'.exportEnabled
          /\ LogIndex("savedSet")' = {Len(d'.log) - 1}
          /\ LogIndex("setNewFftData")' = {Len(d'.log)}
     /\ (~d.running /\ d'.running) => d'.frames = 0]_vars

\* The first frame of a scan has replaced a frame with other limits and
\* other samples.
C24_Witness ==
  /\ ev.op = "feed"
  /\ d.running
  /\ d.frames = 1
  /\ d.saved = FedFrame
  /\ Len(d.saved.data) = 2
  /\ ev.pfs # ev.a
  /\ ev.pfe # ev.b

(***************************************************************************)
(* Export of the saved spectrum.                                           *)
(***************************************************************************)
\* The warnings of the last handler.
Warnings == {i \in DOMAIN d.log : d.log[i].sig = "warning"}

\* C25: an export to a path that cannot be opened fails: no file changes,
\* the saved spectrum stays, the failure is reported and the file dialog is
\* open again.  An export to any other path succeeds, writes that file alone
\* and ends the dialog.  The dialog ends in no other way than a successful
\* export or its rejection by the user.
C25_ExportFailure ==
  [][/\ ev'.op = "exportAccepted" =>
          /\ (ev'.b = 0) = (ev'.a \in ReadOnlyPaths)
          /\ exportToFile(d.saved, fs, ev'.a).ok = (ev'.b = 1)
          /\ d'.saved = d.saved
          /\ ev'.b = 0 =>
               /\ fs' = fs
               /\ d'.exporting
               /\ Warnings' # {}
          /\ ev'.b = 1 =>
               /\ \A p \in Paths \ {ev'.a} : fs'[p] = fs[p]
               /\ fs'[ev'.a] # << >>
               /\ Warnings' = {}
               /\ ~d'.exporting
     /\ (d.exporting /\ ~d'.exporting) =>
          \/ ev'.op = "exportRejected"
          \/ ev'.op = "exportAccepted" /\ ev'.b = 1]_vars

\* An export to a path that cannot be opened has failed after an export that
\* succeeded: the file of the first is still there, the dialog is open.
C25_Witness ==
  /\ ev.op = "exportAccepted"
  /\ ev.b = 0
  /\ ev.a \in ReadOnlyPaths
  /\ fs[ev.a] = << >>
  /\ \E p \in Paths : fs[p] # << >>
  /\ d.exporting
  /\ Warnings # {}

\* The value that is printed, in millionths.
PrintedValue(v) ==
  (IF v.neg THEN -1 ELSE 1) * v.mant * Pow10(v.exp + 6)

\* v is x printed with six significant digits: x itself if it has no more
\* digits than six, else a number of at most six digits that is no further
\* from x than half a unit of the sixth digit of x.
SixDigits(v, x) ==
  /\ ~v.sci
  /\ v.exp >= -6
  /\ v.neg = (x < 0)
  /\ v.mant < Pow10(6)
  /\ v.mant = 0 \/ v.mant % 10 # 0
  /\ IF x = 0 \/ DecimalDigits(Abs(x)) <= 6
       THEN PrintedValue(v) = x
       ELSE 2 * Abs(PrintedValue(v) - x) <= Pow10(DecimalDigits(Abs(x)) - 6)

\* The file is that of the spectrum s: three comment lines and an empty
\* one, the two limits, and the samples in their order.
FileOf(f, s) ==
  /\ Len(f) = 7
  /\ f[1] = Line("%", << >>, "")
  /\ f[2] = Line("% Panoramic Spectrum file generated by SigDigger", << >>, "")
  /\ f[3] = Line("%", << >>, "")
  /\ f[4] = Line("", << >>, "")
  /\ f[5] = Line("freqMin = ", <<s.start>>, ";")
  /\ f[6] = Line("freqMax = ", <<s.end>>, ";")
  /\ f[7].text = "PSD = [ "
  /\ f[7].tail = "];"
  /\ Len(f[7].vals) = Len(s.data)
  /\ \A i \in DOMAIN s.data : SixDigits(f[7].vals[i], s.data[i])

\* Samples, in millionths: with a carry into a seventh digit, with a tie,
\* with fewer digits than six, and with more.
ExportSamples ==
  {-90123456, -85500000, 0, 999999500, 1234565, 1234575, 100, -123456789,
   -120000000}

\* C26: the file of a successful export is that of the saved spectrum, the
\* last frame; every sample is printed with six significant digits; the
\* samples -90.123456 and -85.5 of a frame 100000000..200000000 are printed
\* as -90.1235 and -85.5.
C26_ExportFormat ==
  [][(ev'.op = "exportAccepted" /\ ev'.b = 1) =>
       /\ FileOf(fs'[ev'.a], d.saved)
       /\ \A x \in ExportSamples : SixDigits(exportFloat(x), x)
       /\ FileOf(exportText(SavedSpectrumSet(100000000, 200000000,
                                             <<-90123456, -85500000>>)),
                 SavedSpectrumSet(100000000, 200000000,
                                  <<-90123456, -85500000>>))
       /\ exportFloat(-90123456) =
            [neg |-> TRUE, mant |-> 901235, exp |-> -4, sci |-> FALSE]
       /\ exportFloat(-85500000) =
            [neg |-> TRUE, mant |-> 855, exp |-> -1, sci |-> FALSE]]_vars

\* The second frame, of two samples, has been exported to a file other than
\* the one the first frame was exported to.
C26_Witness ==
  /\ ev.op = "exportAccepted"
  /\ ev.b = 1
  /\ d.frames = 2
  /\ Len(d.saved.data) = 2
  /\ FileOf(fs[ev.a], d.saved)
  /\ \E p \in Paths \ {ev.a} : fs[p] # << >> /\ fs[p] # fs[ev.a]

(***************************************************************************)
(* Loads of the configuration.                                             *)
(***************************************************************************)
\* C27: a load sets the fields whose names are in the object to the values
\* there and leaves every other field; names that are neither those of a
\* field nor those of a gain change nothing; a gain in the object is set,
\* new or not, and the gains that are not in the object stay.
C27_LoadsPresentKeys ==
  [][/\ \A f \in LoadFields :
          cfg'.config[f] = IF f \in DOMAIN cfg'.loaded
                             THEN cfg'.loaded[f]
                             ELSE cfg.config[f]
     /\ DOMAIN cfg'.config.gains =
          DOMAIN cfg.config.gains \cup (DOMAIN cfg'.loaded \cap GainKeys)
     /\ \A k \in DOMAIN cfg'.config.gains :
          cfg'.config.gains[k] = IF k \in DOMAIN cfg'.loaded
                                   THEN cfg'.loaded[k]
                                   ELSE cfg.config.gains[k]
     /\ DOMAIN cfg'.loaded \subseteq OtherKeys =>
          cfg'.config = cfg.config]_vars

\* The object of the last load had the name of a field, that of a gain and a
\* name that is neither; a field and a gain it did not name keep the values
\* of earlier loads.
C27_Witness ==
  /\ DOMAIN cfg.loaded \cap LoadFields # {}
  /\ DOMAIN cfg.loaded \cap OtherKeys # {}
  /\ \E k \in DOMAIN cfg.loaded \cap GainKeys :
       cfg.config.gains[k] = cfg.loaded[k]
  /\ \E k \in DOMAIN cfg.config.gains :
       k \notin DOMAIN cfg.loaded /\ cfg.config.gains[k] \in ConfValues
  /\ \E f \in LoadFields \ DOMAIN cfg.loaded :
       /\ cfg.config[f] \in ConfValues
       /\ \A g \in LoadFields \cap DOMAIN cfg.loaded :
            cfg.config[g] # cfg.config[f]

(***************************************************************************)
(* setWfRange.                                                             *)
(***************************************************************************)
\* Limits that setWfRange is given.
WfLimits == {0, 1, 6, 20000000}

\* setWfRange(freqStart, freqEnd) called, with the guard held as its callers
\* hold it, in the state the dialog is in.
Applied(freqStart, freqEnd) == setWfRange(GuardHeld, freqStart, freqEnd)

\* The same call made once more.
AppliedAgain(freqStart, freqEnd) ==
  setWfRange([Applied(freqStart, freqEnd) EXCEPT !.log = << >>],
             freqStart, freqEnd)

\* The calls of the last handler that reconfigure the bandwidth of the
\* waterfall.
BandwidthCalls ==
  {"setLocked", "setSampleRate", "setDemodRanges", "setHiLowCutFrequencies",
   "resetHorizontalZoom"}

Sigs(log) == {log[i].sig : i \in DOMAIN log}

\* C28: in FixedFrequency mode setWfRange leaves the centre of the waterfall,
\* makes minBwForZoom the current bandwidth, does the same whatever the
\* limits it is given, and sets the sample rate of the waterfall, and
\* nothing else, exactly when minBwForZoom was not the current bandwidth.
\* So does the frame whose limits are new.
C28_FixedKeepsCentre ==
  /\ d.fixedFreqMode =>
       \A a \in WfLimits, b \in WfLimits :
         /\ Applied(a, b).wfCenter = d.wfCenter
         /\ Applied(a, b).currBw = d.minBwForZoom
         /\ Applied(a, b) = Applied(0, 0)
         /\ Applied(a, b).log =
              IF d.minBwForZoom # d.currBw
                THEN <<Entry("setSampleRate", d.minBwForZoom, 0, FALSE)>>
                ELSE << >>
         /\ Applied(a, b).wfSampleRate =
              IF d.minBwForZoom # d.currBw
                THEN d.minBwForZoom
                ELSE d.wfSampleRate
  /\ (ev.op = "feed" /\ d.fixedFreqMode) =>
       /\ d.wfCenter = ev.pc
       /\ LogIndex("setCenterFreq") = {}
       /\ LogIndex("setWfRange") # {} => d.currBw = d.minBwForZoom

\* A frame with new limits, in FixedFrequency mode, has set the sample rate
\* of the waterfall to a minBwForZoom that is not the width of the frame,
\* around a centre that is not that of the frame.
C28_Witness ==
  /\ ev.op = "feed"
  /\ d.fixedFreqMode
  /\ LogIndex("setSampleRate") # {}
  /\ d.currBw = d.minBwForZoom
  /\ d.currBw # ev.b - ev.a
  /\ d.wfCenter = ev.pc
  /\ d.wfCenter # TruncDiv2(ev.a + ev.b)

\* C29: in sweep mode setWfRange puts the centre of the waterfall half way
\* between the limits and makes their distance the current bandwidth; it
\* sets the sample rate and the demodulator ranges and resets the zoom
\* exactly when that distance was not the current bandwidth, and the same
\* call made once more does none of this.  So does the frame whose limits
\* are new.
C29_SweepWindow ==
  /\ ~d.fixedFreqMode =>
       \A a \in WfLimits, b \in WfLimits :
         /\ Applied(a, b).wfCenter = TruncDiv2(a + b)
         /\ 2 * Applied(a, b).wfCenter \in {a + b - 1, a + b, a + b + 1}
         /\ Applied(a, b).currBw = b - a
         /\ IF b - a # d.currBw
              THEN /\ Sigs(Applied(a, b).log) =
                        BandwidthCalls \cup {"setCenterFreq"}
                   /\ Applied(a, b).wfSampleRate = b - a
              ELSE /\ Sigs(Applied(a, b).log) = {"setCenterFreq"}
                   /\ Applied(a, b).wfSampleRate = d.wfSampleRate
         /\ Sigs(AppliedAgain(a, b).log) = {"setCenterFreq"}
         /\ [AppliedAgain(a, b) EXCEPT !.log = << >>] =
              [Applied(a, b) EXCEPT !.log = << >>]
  /\ (ev.op = "feed" /\ ~d.fixedFreqMode /\ LogIndex("setWfRange") # {}) =>
       /\ d.wfCenter = TruncDiv2(ev.a + ev.b)
       /\ d.currBw = ev.b - ev.a
       /\ Cardinality(LogIndex("setSampleRate")) <= 1

\* A frame with new limits and the width of the last one has moved the
\* centre of the waterfall in sweep mode and has left its bandwidth alone.
C29_Witness ==
  /\ ev.op = "feed"
  /\ ~d.fixedFreqMode
  /\ LogIndex("setWfRange") # {}
  /\ LogIndex("setCenterFreq") # {}
  /\ Sigs(d.log) \cap BandwidthCalls = {}
  /\ ev.pfe - ev.pfs = ev.b - ev.a
  /\ d.wfCenter # ev.pc
  /\ d.currBw = ev.b - ev.a

(***************************************************************************)
(* Nested callbacks.                                                       *)
(***************************************************************************)
\* How many entries of a log are the call or signal sig.
Count(log, sig) == Cardinality({i \in DOMAIN log : log[i].sig = sig})

\* The handler that left the log has reset the zoom, and so been called
\* back by the waterfall, at most resets times, has run adjustRanges at most
\* ranges times and has emitted at most details windows.
Bounded(log, resets, ranges, details) ==
  /\ Count(log, "resetHorizontalZoom") <= resets
  /\ Count(log, "setFreqUnits") <= ranges
  /\ Count(log, "detailChanged") <= details

\* C30: every handler returns, with the guard released, after a bounded
\* number of callbacks from the waterfall and from the spin boxes: a frame
\* resets the zoom at most once and emits no window; a zoom-level change
\* resets the zoom at most twice and emits one window; a pan resets nothing
\* and emits one window; a range edit runs adjustRanges at most three times
\* and emits no window.
C30_BoundedCallbacks ==
  /\ ~d.adjustingRange
  /\ ev.op = "feed" => Bounded(d.log, 1, 0, 0)
  /\ ev.op = "zoom" => Bounded(d.log, 2, 0, 1) /\ Len(Details) = 1
  /\ \A freq \in PanInputs :
       /\ Bounded(onNewCenterFreq([Begin EXCEPT !.wfCenter = freq], freq).log,
                  0, 0, 1)
       /\ ~onNewCenterFreq([Begin EXCEPT !.wfCenter = freq], freq).adjustingRange
  /\ \A v \in RangeInputs :
       /\ Bounded(rangeStartSetValue(Begin, v).log, 0, 3, 0)
       /\ Bounded(rangeEndSetValue(Begin, v).log, 0, 3, 0)
       /\ ~rangeStartSetValue(Begin, v).adjustingRange
       /\ ~rangeEndSetValue(Begin, v).adjustingRange

\* A frame with new limits has reset the zoom of the waterfall, which calls
\* the zoom slot back, in a state in which a zoom-level change resets the
\* zoom twice.
C30_Witness ==
  /\ ev.op = "feed"
  /\ Count(d.log, "resetHorizontalZoom") = 1
  /\ Len(Details) = 0
  /\ \E c \in ZoomCenters, span \in SpanInputs :
       Count(onNewZoomLevel(Begin, c - d.wfCenter, span).log,
             "resetHorizontalZoom") = 2

(***************************************************************************)
(* What adjustRanges hands to the waterfall.                               *)
(***************************************************************************)
\* The last call sig of the last handler: its first argument.
LastArg(sig) ==
  d.log[CHOOSE i \in LogIndex(sig) : \A j \in LogIndex(sig) : j <= i].a

\* The last handler has run adjustRanges.
Adjusted == LogIndex("setFreqUnits") # {}

\* Frequencies around the thresholds of the units.
UnitInputs ==
  {0, 1, 999, 1000, 1001, 999999, 1000000, 1000001, 999999999, 1000000000,
   1000000001, 2000000000}

\* The units of a frequency of magnitude f.
UnitsOf(f) ==
  CASE f < 1000 -> 1
    [] f >= 1000 /\ f < 1000000 -> 1000
    [] f >= 1000000 /\ f < 1000000000 -> 1000000
    [] OTHER -> 1000000000

\* The thresholds of getFrequencyUnits, on either side of zero.
UnitThresholds ==
  \A f \in UnitInputs :
    /\ getFrequencyUnits(f) = UnitsOf(f)
    /\ getFrequencyUnits(-f) = UnitsOf(f)

\* C31 (as claimed): the units are those of the magnitude of the frequency,
\* and the units handed to the waterfall are those of the maximum of the
\* range.
C31_UnitsOfMaximum ==
  /\ UnitThresholds
  /\ Adjusted => LastArg("setFreqUnits") = getFrequencyUnits(getMaxFreq(d))

\* C31, what the waterfall is handed: the units of the value the end spin
\* box held when adjustRanges was entered, which is the maximum of the range
\* unless the pair was inverted, and then its minimum.
C31_UnitsOfEntryEnd ==
  /\ UnitThresholds
  /\ Adjusted =>
       LastArg("setFreqUnits") =
         IF LastArg("setSpanFreq") >= 0
           THEN getFrequencyUnits(getMaxFreq(d))
           ELSE getFrequencyUnits(getMinFreq(d))

\* A start above the end was typed, of other units than the end, and the
\* waterfall has the units of the minimum of the range.
C31_Witness ==
  /\ ev.op = "rangeStart"
  /\ ev.a > ev.pe
  /\ Adjusted
  /\ getMinFreq(d) = ev.pe
  /\ getMaxFreq(d) = ev.a
  /\ LastArg("setFreqUnits") = getFrequencyUnits(getMinFreq(d))
  /\ getFrequencyUnits(getMinFreq(d)) # getFrequencyUnits(getMaxFreq(d))

\* C32 (as claimed): the span adjustRanges hands to the waterfall is the
\* width of the range stored, which is not negative, and the centre is the
\* middle of that range.
C32_SpanOfStoredRange ==
  Adjusted =>
    /\ LastArg("setSpanFreq") >= 0
    /\ LastArg("setSpanFreq") = getMaxFreq(d) - getMinFreq(d)
    /\ LastArg("setCenterFreq") = TruncDiv2(getMinFreq(d) + getMaxFreq(d))

\* C32, what the waterfall is handed: the centre is the middle of the range
\* stored; the span is its width, or minus its width, computed from the
\* values the spin boxes held when adjustRanges was entered.
C32_SpanOfEntryRange ==
  Adjusted =>
    /\ Abs(LastArg("setSpanFreq")) = getMaxFreq(d) - getMinFreq(d)
    /\ getMinFreq(d) <= getMaxFreq(d)
    /\ LastArg("setCenterFreq") = TruncDiv2(getMinFreq(d) + getMaxFreq(d))
    /\ d.wfCenter = LastArg("setCenterFreq")
    /\ (ev.op = "rangeStart" /\ ev.a > ev.pe /\ getMaxFreq(d) = ev.a) =>
         LastArg("setSpanFreq") = ev.pe - ev.a
    /\ (ev.op = "rangeEnd" /\ ev.a < ev.ps /\ getMinFreq(d) = ev.a) =>
         LastArg("setSpanFreq") = ev.a - ev.ps

\* A start above the end was typed: the range is stored exchanged and the
\* waterfall has a negative span.
C32_Witness ==
  /\ ev.op = "rangeStart"
  /\ ev.a > ev.pe
  /\ Adjusted
  /\ getMinFreq(d) = ev.pe
  /\ getMaxFreq(d) = ev.a
  /\ LastArg("setSpanFreq") = ev.pe - ev.a
  /\ LastArg("setSpanFreq") < 0

(***************************************************************************)
(* The mode between zoom-level changes.                                    *)
(***************************************************************************)
\* The step changes minBwForZoom or the relative bandwidth right after a
\* zoom-level change.
ThresholdChangedAfterZoom ==
  /\ ev.op = "zoom"
  /\ ev'.op \in {"minBw", "relBw"}

\* C33 (as claimed): after minBwForZoom or the relative bandwidth has
\* changed, the mode is FixedFrequency exactly when the width of the window
\* that the last zoom-level change was reconciled to is at most the new
\* minBwForZoom * relBw (both sides in quarters of a Hz).
C33_ModeFollowsThreshold ==
  [][ThresholdChangedAfterZoom =>
       (d'.fixedFreqMode <=>
          4 * (Reconciled.max - Reconciled.min) <=
            d'.minBwForZoom * getRelBw(d'))]_vars

\* C33, what a change of minBwForZoom or of the relative bandwidth does to
\* the mode: nothing.  The mode, the current bandwidth and the waterfall stay
\* as the last zoom-level change left them, and no window is emitted.
C33_ModeKeptUntilZoom ==
  [][ev'.op \in {"minBw", "relBw"} =>
       /\ d'.fixedFreqMode = d.fixedFreqMode
       /\ d'.currBw = d.currBw
       /\ d'.wfCenter = d.wfCenter
       /\ d'.wfSampleRate = d.wfSampleRate
       /\ Len(Details') = 0]_vars

\* minBwForZoom has been raised above the width of the window shown in
\* sweep mode, exactly representable as a float, and the mode is still
\* sweep.
C33_Witness ==
  /\ ev.op = "minBw"
  /\ ~d.fixedFreqMode
  /\ d.currBw > 0
  /\ d.currBw < d.minBwForZoom
  /\ d.minBwForZoom < FloatMantissa
  /\ 4 * d.currBw <= d.minBwForZoom * getRelBw(d)

\* The horizontal zoom was reset on account of the requested window: the
\* reset of line 1029 is the first call of the handler, while the one inside
\* setWfRange follows setCenterFreq.
ZoomWasReset == Len(d.log) > 0 /\ d.log[1].sig = "resetHorizontalZoom"

\* C34: a zoom request no wider than the configured range does not reset
\* the horizontal zoom: one over a single edge is moved inward and keeps its
\* zoom level, one inside the range never resets.
C34_ResetOnlyIfWider ==
  (ev.op = "zoom" /\ ReqMax - ReqMin <= RangeHi - RangeLo) => ~ZoomWasReset

\* C34, as the code has it: the request resets the horizontal zoom exactly
\* when it is over an edge of the range, whatever its width; a request
\* inside the range does not.
C34_ResetIfOverAnEdge ==
  ev.op = "zoom" =>
    (ZoomWasReset <=> (ReqMin < RangeLo \/ ReqMax > RangeHi))

\* A request narrower than the range, over its upper edge only, was moved
\* inward and the zoom was reset.
C34_Witness ==
  /\ ev.op = "zoom"
  /\ ReqMax > RangeHi
  /\ ReqMin > RangeLo
  /\ ReqMax - ReqMin < RangeHi - RangeLo
  /\ ReqMax - ReqMin > 0
  /\ Reconciled.max = RangeHi
  /\ Reconciled.max - Reconciled.min = ReqMax - ReqMin
  /\ ZoomWasReset

\* The excess delay feedPSD computes for message k of the session, which
\* met a filter that had seen a message: its delay less rtDelta, rtDelta
\* having been lowered to that delay first if it was above it.
ExcessDelay(k) ==
  um.hist[k].delay
    - nextRtDelta([haveRtDelta |-> um.hist[k].have,
                   rtDelta |-> um.hist[k].delta],
                  um.hist[k].delay)

\* C36: with the filter on and msgTTL >= 0 the excess delay computed for a
\* message is never negative, a message that lowers rtDelta is fed to the
\* spectrum, and a dropped message leaves the filter's state as it was.
C36_DroppedKeepsMinimum ==
  um.msgTTL >= 0 =>
    \A k \in DOMAIN um.hist :
      um.hist[k].on =>
        /\ um.hist[k].have => ExcessDelay(k) >= 0
        /\ (um.hist[k].have /\ DeltaAfter(k) < um.hist[k].delta) =>
             um.hist[k].fed
        /\ ~um.hist[k].fed =>
             /\ HaveAfter(k) = um.hist[k].have
             /\ DeltaAfter(k) = um.hist[k].delta

\* The second message lowered rtDelta and was fed; the third was dropped
\* and left rtDelta at the delay of the second.
C36_Witness ==
  /\ Len(um.hist) >= 3
  /\ um.msgTTL >= 0
  /\ \A k \in 1..3 : um.hist[k].on
  /\ um.hist[2].have
  /\ DeltaAfter(2) < um.hist[2].delta
  /\ um.hist[2].fed
  /\ ExcessDelay(2) = 0
  /\ ~um.hist[3].fed
  /\ ExcessDelay(3) > um.msgTTL * 1000
  /\ DeltaAfter(3) = um.hist[2].delay

\* The scan button was pressed, not released, by the last event.
ScanPressed == ev.op = "toggle" /\ ev.a = 1

\* C37: start is emitted only when a device is selected in the device map:
\* pressing the scan button with no device to select emits no start.
C37_StartNeedsDevice ==
  (ScanPressed /\ ~getSelectedDevice(d)) => LogIndex("start") = {}

\* C37, as the code has it: pressing the scan button emits start unless the
\* selected device is the banned one, whether a device is selected or not.
C37_StartUnlessBanned ==
  ScanPressed =>
    /\ LogIndex("start") # {} <=>
         ~(d.bannedDevice # NoDevice /\ selectedDesc(d) = d.bannedDevice)
    /\ ~getSelectedDevice(d) =>
         /\ d.log = <<Entry("start", 0, 0, FALSE)>>
         /\ d.scanChecked
         /\ d.wfRunningState

\* The scan button was pressed with an empty device map, and start was
\* emitted.
C37_Witness ==
  /\ ScanPressed
  /\ d.deviceMap = {}
  /\ ~getSelectedDevice(d)
  /\ LogIndex("start") # {}
  /\ d.scanChecked

\* The source info of the last applySourceInfo.
AppliedInfo == SourceInfos[ev.a]

\* C38: the stored source info is that of the most recent applySourceInfo
\* made after the most recent setProfile: once applySourceInfo(info) has
\* been the last call, the stored source info is info.
C38_StoresLatestInfo ==
  ev.op = "applySourceInfo" => sw.sourceInfo = AppliedInfo

\* C38, as the code has it: applySourceInfo stores its info only in a
\* widget that has never stored one, and otherwise leaves the stored info
\* alone; setProfile resets the stored info and lets the widget remember
\* that it has stored one.
C38_StoresFirstInfoOnly ==
  [][/\ (ev'.op = "applySourceInfo" /\ ~sw.haveSourceInfo) =>
          /\ sw'.sourceInfo = AppliedInfo'
          /\ sw'.haveSourceInfo
     /\ (ev'.op = "applySourceInfo" /\ sw.haveSourceInfo) =>
          /\ sw'.sourceInfo = sw.sourceInfo
          /\ sw'.haveSourceInfo
     /\ ev'.op = "setProfile" =>
          /\ sw'.sourceInfo = DefaultInfo
          /\ sw'.haveSourceInfo = sw.haveSourceInfo
          /\ sw'.profile = SourceProfiles[ev'.a]]_vars

\* A source info without permissions was applied after a setProfile that
\* followed an earlier applySourceInfo: the stored info is the default one
\* and the controls are enabled by its permissions.
C38_Witness ==
  /\ ev.op = "applySourceInfo"
  /\ AppliedInfo.permissions = {}
  /\ sw.haveSourceInfo
  /\ sw.profile = [type |-> "SDR", remote |-> FALSE]
  /\ sw.sourceInfo = DefaultInfo
  /\ sw.dcRemoveCheckEnabled
  /\ sw.bwSpinEnabled

\* The mediator inside its guarded block.
RangesHeld == [um EXCEPT !.settingRanges = TRUE]

\* The mediator has handled a range change.
RangeHandled == "setPandapterRange" \in {um.out[i] : i \in DOMAIN um.out}

\* C35: no handler running, neither adjustingRange nor settingRanges is
\* set, whatever feeds, zoom-level changes and range changes came before;
\* and an onRangeChanged that arrives while settingRanges is set changes
\* nothing: the ranges are those of the outer call.
C35_GuardsReleased ==
  /\ ~d.adjustingRange
  /\ ~um.settingRanges
  /\ \A r \in PandRanges :
       \A echo \in RangeEchoes(r) :
         onRangeChanged(RangesHeld, r.min, r.max, echo) = RangesHeld
  /\ RangeHandled =>
       /\ um.pandapterRange = um.range
       /\ um.fftPandRange =
            [min |-> Floor(um.range.min), max |-> Floor(um.range.max)]
       /\ um.rangeLock =>
            /\ um.wfRange = um.range
            /\ um.fftWfRange = um.fftPandRange

\* A range change with the lock on, during which the spectrum emitted
\* rangeChanged with another range, at a dialog that has been fed a frame
\* and has handled a zoom-level change since.
C35_Witness ==
  /\ RangeHandled
  /\ um.nested = 1
  /\ um.rangeLock
  /\ um.range \in PandRanges
  /\ um.pandapterRange = um.range
  /\ um.fftPandRange.min < um.range.min
  /\ ~um.settingRanges
  /\ ev.op = "zoom"
  /\ d.frames > 0
  /\ LogIndex("detailChanged") # {}
  /\ ~d.adjustingRange

=============================================================================
